---- MODULE Spec2Model ----
(***************************************************************************)
(* A model of bpf-script: the peephole optimizer (src/src/optimizer.rs),   *)
(* the type database (src/src/types.rs) and the single-pass emitter        *)
(* (src/src/compiler/script.rs).                                           *)
(*                                                                         *)
(* The specifications share the module's variables:                       *)
(*   SpecOpt      optimize() applied to arbitrary bounded instruction      *)
(*                streams, both streams run on a small machine;            *)
(*   SpecWindows  optimize() on longer streams of window instructions;     *)
(*   SpecDb       sequences of TypeDatabase add_* operations;              *)
(*   SpecBtf      add_btf_types on a fresh database;                       *)
(*   SpecPack     add_struct_by_ids / add_struct_by_names;                 *)
(*   SpecHelpers  Helpers::from_string;                                    *)
(*   Spec         Compiler::compile on programs generated statement by     *)
(*                statement against a fixed type database;                 *)
(*   SpecStmt, SpecPrologue, SpecCapture, SpecDeref                        *)
(*                one compile with larger alphabets of statements, input   *)
(*                lines, captured values and dereference chains;           *)
(*   SpecText     Compiler::compile on a script given as text, parsed by   *)
(*                the grammar.                                             *)
(***************************************************************************)
EXTENDS Integers, Sequences, FiniteSets, TLC

VARIABLES
    \* ---- optimizer harness (SpecOpt)
    optPc,          \* "in" | "opt1" | "opt2" | "ran"
    optIn,          \* the input stream x
    optOut,         \* optimize(x)
    optOut2,        \* optimize(optimize(x))
    vmRegs0,        \* initial registers of the machine
    vmA,            \* machine state after running x
    vmB,            \* machine state after running optimize(x)
    \* ---- type database (SpecDb; read-only in Spec)
    types,          \* TypeDatabase.types
    name_map,       \* TypeDatabase.name_map
    dbLast,         \* result of the last database operation
    \* ---- Compiler fields (Spec)
    variables,      \* Compiler.variables
    instructions,   \* Compiler.instructions
    stack,          \* Compiler.stack
    expr_num,       \* Compiler.expr_num
    \* ---- position of the compile call and history of the program text
    pc,             \* "idle" | "body" | "done" | "failed"
    frames,         \* open if statements, innermost last
    hist,           \* history of the program compiled so far
    \* ---- Helpers::from_string harness (SpecHelpers)
    hlpPc,          \* "in" | "found" | "id"
    hlpName,        \* the name given to from_string
    hlpRes,         \* Helpers::from_string(hlpName)
    hlpId           \* the member found `as u32`

optVars == <<optPc, optIn, optOut, optOut2, vmRegs0, vmA, vmB>>
dbVars  == <<types, name_map, dbLast>>
ccVars  == <<variables, instructions, stack, expr_num, pc, frames, hist>>
hlpVars == <<hlpPc, hlpName, hlpRes, hlpId>>
vars    == <<optVars, dbVars, ccVars, hlpVars>>

(***************************************************************************)
(* Bounds of the model.                                                    *)
(***************************************************************************)
MaxStreamLen == 3      \* longest stream given to optimize in SpecOpt
VmWords      == 16     \* machine words and addresses are taken modulo this
MaxDbOps     == 3      \* database operations per run of SpecDb
MaxStmts     == 2      \* statements compiled per Compiler instance in Spec
MaxDepth     == 2      \* nesting depth of if statements in Spec
MaxCompiles  == 2      \* compile calls per Compiler instance in Spec
MaxBtfTypes  == 3      \* source types of the Btf given to add_btf_types
MaxParams    == 6      \* parameters of the input line in SpecPrologue
MaxFields    == 4      \* fields of the struct packed in SpecPack
MaxLines     == 2      \* statements of a script given as text (SpecText)
MaxWindows   == 6      \* longest stream given to optimize in SpecWindows

(***************************************************************************)
(* Registers and instructions (the bpf_ins constructors the code uses).    *)
(* An instruction is a record; tag is a history label carried beside the   *)
(* instruction (which statement block emitted it), never read by the code: *)
(* every comparison the code makes goes through SameIns, which ignores it. *)
(***************************************************************************)
R0  == 0
R1  == 1
R2  == 2
R3  == 3
R6  == 6
R8  == 8
R9  == 9
R10 == 10

NoTag == [path |-> <<>>, role |-> "", ifid |-> 0]

Ins(op, dst, src, off, imm, size, aux) ==
    [op |-> op, dst |-> dst, src |-> src, off |-> off, imm |-> imm,
     size |-> size, aux |-> aux, tag |-> NoTag]

mov64(reg, imm)            == Ins("mov64", reg, R0, 0, imm, 0, "")
movx64(dst, src)           == Ins("movx64", dst, src, 0, 0, 0, "")
add64(reg, imm)            == Ins("add64", reg, R0, 0, imm, 0, "")
loadx(dst, src, off, size) == Ins("loadx", dst, src, off, 0, size, "")
store(base, off, imm, size) == Ins("store", base, R0, off, imm, size, "")
storex64(base, off, src)   == Ins("storex", base, src, off, 0, 64, "")
loadtype(reg, imm, lt)     == Ins("loadtype", reg, R0, 0, imm, 64, lt)
call(id)                   == Ins("call", R0, R0, 0, id, 0, "")
exit                       == Ins("exit", R0, R0, 0, 0, 0, "")
jmp_abs(off)               == Ins("jmp_abs", R0, R0, off, 0, 0, "")
jmp_ifx(l, jop, r, off)    == Ins("jmp_ifx", l, r, off, 0, 0, jop)

\* Opcode::Memory(_): loads and stores of every mode
IsMemory(i) == i.op \in {"loadx", "store", "storex", "loadtype"}

SameIns(a, b) == [a EXCEPT !.tag = NoTag] = [b EXCEPT !.tag = NoTag]

FitsI16(n) == n \in -32768..32767

Retag(i, t) == [i EXCEPT !.tag = t]

(***************************************************************************)
(* optimizer.rs.  Each optimizer takes the remaining input and the output  *)
(* built so far and gives back both (and whether it matched).              *)
(***************************************************************************)
\* `let v = ...;` followed by K
Bind(v, K(_)) == K(v)

Rest(s, n) == SubSeq(s, n + 1, Len(s))

optimize_mov_add_load(inp, out) ==
    LET fail == [inp |-> inp, out |-> out, ok |-> FALSE] IN
    IF Len(inp) < 3 THEN fail
    ELSE IF ~IsMemory(inp[3]) THEN fail
    ELSE IF ~FitsI16(inp[2].imm) THEN fail
    ELSE LET load_size == inp[3].size
             offset1 == inp[2].imm
             check0 == movx64(inp[1].dst, inp[1].src)
             check1 == add64(inp[2].dst, offset1)
             check2 == loadx(inp[3].dst, inp[3].src, 0, load_size)
         IN IF ~SameIns(check0, inp[1]) \/ ~SameIns(check1, inp[2])
               \/ ~SameIns(check2, inp[3])
            THEN fail
            ELSE [inp |-> Rest(inp, 3),
                  out |-> Append(out, Retag(loadx(inp[1].dst, inp[1].src,
                                                  offset1, load_size),
                                            inp[1].tag)),
                  ok  |-> TRUE]

optimize_add_load(inp, out) ==
    LET fail == [inp |-> inp, out |-> out, ok |-> FALSE] IN
    IF Len(inp) < 2 THEN fail
    ELSE IF ~IsMemory(inp[2]) THEN fail
    ELSE IF ~FitsI16(inp[1].imm) THEN fail
    ELSE LET load_size == inp[2].size
             offset0 == inp[1].imm
             check0 == add64(inp[1].dst, offset0)
             check1 == loadx(inp[2].dst, inp[2].src, 0, load_size)
         IN IF ~SameIns(check0, inp[1]) \/ ~SameIns(check1, inp[2])
            THEN fail
            ELSE [inp |-> Rest(inp, 2),
                  out |-> Append(out, Retag(loadx(inp[1].dst, inp[1].dst,
                                                  offset0, load_size),
                                            inp[1].tag)),
                  ok  |-> TRUE]

\* no_optimization pushing the instruction twice
no_optimization_twice(inp, out) ==
    IF inp = <<>> THEN [inp |-> inp, out |-> out, ok |-> FALSE]
    ELSE [inp |-> Rest(inp, 1), out |-> Append(Append(out, inp[1]), inp[1]),
          ok |-> TRUE]

no_optimization(inp, out) ==
    IF inp = <<>> THEN [inp |-> inp, out |-> out, ok |-> FALSE]
    ELSE [inp |-> Rest(inp, 1), out |-> Append(out, inp[1]), ok |-> TRUE]

\* One pass of `for optimizer in OPTIMIZERS`: all three run, in order, each on
\* what the one before left; the returned bool is not looked at.
OPTIMIZERS(inp, out) ==
    Bind(optimize_mov_add_load(inp, out),
         LAMBDA s1 : Bind(optimize_add_load(s1.inp, s1.out),
                          LAMBDA s2 : no_optimization(s2.inp, s2.out)))

RECURSIVE optimize_loop(_, _)
optimize_loop(inp, out) ==
    IF inp = <<>> THEN out
    ELSE Bind(OPTIMIZERS(inp, out), LAMBDA s : optimize_loop(s.inp, s.out))

optimize(instrs) == optimize_loop(instrs, <<>>)

(***************************************************************************)
(* A register/memory machine for straight-line streams: words and          *)
(* addresses are taken modulo VmWords.                                     *)
(***************************************************************************)
OptRegs == {R1, R2}
VmAddrs == 0 .. (VmWords - 1)

VmMem0 == [a \in VmAddrs |-> (3 * a + 1) % VmWords]

VmExec(i, st) ==
    CASE i.op = "movx64" -> [st EXCEPT !.regs[i.dst] = st.regs[i.src]]
      [] i.op = "mov64"  -> [st EXCEPT !.regs[i.dst] = i.imm % VmWords]
      [] i.op = "add64"  -> [st EXCEPT !.regs[i.dst] = (@ + i.imm) % VmWords]
      [] i.op = "loadx"  ->
            [st EXCEPT !.regs[i.dst] = st.mem[(st.regs[i.src] + i.off) % VmWords]]
      [] i.op = "storex" ->
            [st EXCEPT !.mem[(st.regs[i.dst] + i.off) % VmWords] = st.regs[i.src]]
      [] OTHER -> st

RECURSIVE VmRun(_, _)
VmRun(stream, st) ==
    IF stream = <<>> THEN st ELSE VmRun(Tail(stream), VmExec(Head(stream), st))

(***************************************************************************)
(* SpecOpt: optimize on every stream over OptAlphabet up to MaxStreamLen.  *)
(***************************************************************************)
OptAlphabet ==
    {movx64(R2, R1), movx64(R1, R2),
     add64(R1, 8), add64(R2, 0), add64(R2, 8),
     loadx(R2, R2, 0, 64), loadx(R1, R1, 0, 64), loadx(R2, R1, 0, 64),
     storex64(R1, 0, R2)}

Streams(n) == UNION {[1..k -> OptAlphabet] : k \in 0..n}

VmIdle == [regs |-> [r \in OptRegs |-> 0], mem |-> VmMem0]

OptIdle ==
    /\ optPc = "off" /\ optIn = <<>> /\ optOut = <<>> /\ optOut2 = <<>>
    /\ vmRegs0 = [r \in OptRegs |-> 0] /\ vmA = VmIdle /\ vmB = VmIdle

InitOpt ==
    /\ optPc = "in"
    /\ optIn \in Streams(MaxStreamLen)
    /\ optOut = <<>> /\ optOut2 = <<>>
    /\ vmRegs0 \in [OptRegs -> {1, 6}]
    /\ vmA = VmIdle /\ vmB = VmIdle

OptFirst ==
    /\ optPc = "in"
    /\ optOut' = optimize(optIn)
    /\ optPc' = "opt1"
    /\ UNCHANGED <<optIn, optOut2, vmRegs0, vmA, vmB>>

OptSecond ==
    /\ optPc = "opt1"
    /\ optOut2' = optimize(optOut)
    /\ optPc' = "opt2"
    /\ UNCHANGED <<optIn, optOut, vmRegs0, vmA, vmB>>

OptRun ==
    /\ optPc = "opt2"
    /\ vmA' = VmRun(optIn, [regs |-> vmRegs0, mem |-> VmMem0])
    /\ vmB' = VmRun(optOut, [regs |-> vmRegs0, mem |-> VmMem0])
    /\ optPc' = "ran"
    /\ UNCHANGED <<optIn, optOut, optOut2, vmRegs0>>

(***************************************************************************)
(* SpecWindows: optimize on every stream up to MaxWindows over the         *)
(* instructions of the two windows and one store, so that several windows  *)
(* follow each other in one stream.                                        *)
(***************************************************************************)
WindowAlphabet ==
    {movx64(R2, R1), add64(R2, 8), loadx(R2, R2, 0, 64), storex64(R1, 0, R2)}

WindowStreams == UNION {[1..k -> WindowAlphabet] : k \in 0..MaxWindows}

InitWindows ==
    /\ optPc = "in"
    /\ optIn \in WindowStreams
    /\ optOut = <<>> /\ optOut2 = <<>>
    /\ vmRegs0 = [r \in OptRegs |-> 0] /\ vmA = VmIdle /\ vmB = VmIdle

(***************************************************************************)
(* types.rs.  A BaseType is a record of one shape for every variant (the   *)
(* fields a variant does not carry stay at their defaults); a struct's     *)
(* HashMap<String, Field> is a function from field names to Fields.  Type  *)
(* id i is stored at position i + 1 of the sequence `types`.               *)
(***************************************************************************)
NoName   == ""                      \* Option<&str>::None
EmptyMap == [n \in {} |-> 0]

BaseVoid ==
    [kind |-> "Void", used_bits |-> 0, bits |-> 0, is_signed |-> FALSE,
     element_type_id |-> 0, num_elements |-> 0, fields |-> EmptyMap, size |-> 0]

BaseInteger(used_bits, bits, is_signed) ==
    [BaseVoid EXCEPT !.kind = "Integer", !.used_bits = used_bits,
                     !.bits = bits, !.is_signed = is_signed]

BaseFloat(bits) == [BaseVoid EXCEPT !.kind = "Float", !.bits = bits]

BaseArray(element_type_id, num_elements, size) ==
    [BaseVoid EXCEPT !.kind = "Array", !.element_type_id = element_type_id,
                     !.num_elements = num_elements, !.size = size]

BaseStruct(fields, size) ==
    [BaseVoid EXCEPT !.kind = "Struct", !.fields = fields, !.size = size]

Field(offset, type_id) == [offset |-> offset, type_id |-> type_id]

MkType(base_type, num_refs) == [base_type |-> base_type, num_refs |-> num_refs]

TypeFrom(base_type) == MkType(base_type, 0)       \* impl From<BaseType> for Type

TypeDefault == TypeFrom(BaseVoid)                 \* Type::default()

BaseType_get_size(b) ==
    CASE b.kind = "Void"    -> 0
      [] b.kind = "Integer" -> b.used_bits \div 8
      [] b.kind = "Float"   -> b.bits \div 8
      [] b.kind = "Array"   -> b.size
      [] b.kind = "Struct"  -> b.size
      [] OTHER              -> 0

Type_is_pointer(t) == t.num_refs > 0

Type_get_size(t) == IF t.num_refs > 0 THEN 8 ELSE BaseType_get_size(t.base_type)

\* A database value: [types, name_map]; name_map is a function on the bound names.
Db(ts, nm) == [types |-> ts, name_map |-> nm]

HasId(db, id) == id \in 0 .. (Len(db.types) - 1)

get_type_by_id(db, id) == db.types[id + 1]               \* when HasId(db, id)

HasName(db, name) == name \in DOMAIN db.name_map

get_type_id_by_name(db, name) == db.name_map[name]       \* when HasName(db, name)

\* name_map.get(name)? then types.get(index)
HasTypeByName(db, name) == HasName(db, name) /\ HasId(db, db.name_map[name])

get_type_by_name(db, name) == db.types[db.name_map[name] + 1]

MapPut(m, k, v) == [x \in (DOMAIN m) \cup {k} |-> IF x = k THEN v ELSE m[x]]

DbOk(db, id)   == [ok |-> TRUE, err |-> "", id |-> id, db |-> db]
DbErr(db, err) == [ok |-> FALSE, err |-> err, id |-> 0, db |-> db]

\* add_type that pushes the type and binds the name to the new index even
\* when the name is bound already
add_type_always_appends(db, name, ty) ==
    IF name # NoName
    THEN DbOk(Db(Append(db.types, ty), MapPut(db.name_map, name, Len(db.types))),
              Len(db.types))
    ELSE DbOk(Db(Append(db.types, ty), db.name_map), Len(db.types))

add_type(db, name, ty) ==
    IF name # NoName
    THEN IF HasName(db, name)
         THEN LET index == db.name_map[name]
              IN DbOk(Db([db.types EXCEPT ![index + 1] = ty], db.name_map), index)
         ELSE LET index == Len(db.types)
              IN DbOk(Db(Append(db.types, ty), MapPut(db.name_map, name, index)),
                      index)
    ELSE DbOk(Db(Append(db.types, ty), db.name_map), Len(db.types))

Array_create(db, element_type_id, num_elements) ==
    IF ~HasId(db, element_type_id)
    THEN [ok |-> FALSE, err |-> "InvalidTypeId", val |-> BaseVoid]
    ELSE LET size == Type_get_size(get_type_by_id(db, element_type_id)) * num_elements
         IN [ok |-> TRUE, err |-> "",
             val |-> BaseArray(element_type_id, num_elements, size)]

\* fields: a sequence of <<name, Field>>; the loop keeps the furthest reach.
RECURSIVE Struct_create_loop(_, _, _, _)
Struct_create_loop(db, fields, new_fields, bits) ==
    IF fields = <<>>
    THEN [ok |-> TRUE, err |-> "", val |-> BaseStruct(new_fields, bits \div 8)]
    ELSE LET name  == Head(fields)[1]
             field == Head(fields)[2]
         IN IF ~HasId(db, field.type_id)
            THEN [ok |-> FALSE, err |-> "InvalidTypeId", val |-> BaseVoid]
            ELSE LET reach == field.offset
                              + Type_get_size(get_type_by_id(db, field.type_id)) * 8
                 IN Struct_create_loop(db, Tail(fields),
                                       MapPut(new_fields, name, field),
                                       IF reach > bits THEN reach ELSE bits)

Struct_create(db, fields) == Struct_create_loop(db, fields, EmptyMap, 0)

add_integer(db, name, bytes, is_signed) ==
    add_type(db, name, TypeFrom(BaseInteger(bytes * 8, bytes * 8, is_signed)))

add_array(db, name, element_type_id, num_elements) ==
    LET new_array == Array_create(db, element_type_id, num_elements)
    IN IF ~new_array.ok THEN DbErr(db, new_array.err)
       ELSE add_type(db, name, TypeFrom(new_array.val))

add_struct(db, name, fields) ==
    LET new_struct == Struct_create(db, fields)
    IN IF ~new_struct.ok THEN DbErr(db, new_struct.err)
       ELSE add_type(db, name, TypeFrom(new_struct.val))

\* pack_by_ids that gives every field a 64-bit slot
RECURSIVE pack_by_ids_in_words(_, _, _, _)
pack_by_ids_in_words(db, fields, new_fields, offset) ==
    IF fields = <<>> THEN [ok |-> TRUE, err |-> "", val |-> new_fields]
    ELSE LET type_id == Head(fields)[2]
         IN IF ~HasId(db, type_id)
            THEN [ok |-> FALSE, err |-> "InvalidTypeName", val |-> <<>>]
            ELSE pack_by_ids_in_words(db, Tail(fields),
                     Append(new_fields, <<Head(fields)[1], Field(offset, type_id)>>),
                     offset + 64)

\* fields: a sequence of <<field_name, type_id>>
RECURSIVE pack_by_ids(_, _, _, _)
pack_by_ids(db, fields, new_fields, offset) ==
    IF fields = <<>> THEN [ok |-> TRUE, err |-> "", val |-> new_fields]
    ELSE LET type_id == Head(fields)[2]
         IN IF ~HasId(db, type_id)
            THEN [ok |-> FALSE, err |-> "InvalidTypeName", val |-> <<>>]
            ELSE pack_by_ids(db, Tail(fields),
                     Append(new_fields, <<Head(fields)[1], Field(offset, type_id)>>),
                     offset + Type_get_size(get_type_by_id(db, type_id)) * 8)

add_struct_by_ids_in_words(db, name, fields) ==
    LET packed == pack_by_ids_in_words(db, fields, <<>>, 0)
    IN IF ~packed.ok THEN DbErr(db, packed.err)
       ELSE add_struct(db, name, packed.val)

add_struct_by_ids(db, name, fields) ==
    LET packed == pack_by_ids(db, fields, <<>>, 0)
    IN IF ~packed.ok THEN DbErr(db, packed.err)
       ELSE add_struct(db, name, packed.val)

\* fields: a sequence of <<field_name, type_name>>
RECURSIVE pack_by_names(_, _, _, _)
pack_by_names(db, fields, new_fields, offset) ==
    IF fields = <<>> THEN [ok |-> TRUE, err |-> "", val |-> new_fields]
    ELSE LET type_name == Head(fields)[2]
         IN IF ~HasTypeByName(db, type_name)
            THEN [ok |-> FALSE, err |-> "InvalidTypeName", val |-> <<>>]
            ELSE LET type_id == get_type_id_by_name(db, type_name)
                 IN pack_by_names(db, Tail(fields),
                        Append(new_fields,
                               <<Head(fields)[1], Field(offset, type_id)>>),
                        offset + Type_get_size(get_type_by_name(db, type_name)) * 8)

\* add_struct_by_names that leaves out a field whose type name is not bound
RECURSIVE pack_by_names_skipping(_, _, _, _)
pack_by_names_skipping(db, fields, new_fields, offset) ==
    IF fields = <<>> THEN [ok |-> TRUE, err |-> "", val |-> new_fields]
    ELSE LET type_name == Head(fields)[2]
         IN IF ~HasTypeByName(db, type_name)
            THEN pack_by_names_skipping(db, Tail(fields), new_fields, offset)
            ELSE LET type_id == get_type_id_by_name(db, type_name)
                 IN pack_by_names_skipping(db, Tail(fields),
                        Append(new_fields,
                               <<Head(fields)[1], Field(offset, type_id)>>),
                        offset + Type_get_size(get_type_by_name(db, type_name)) * 8)

add_struct_by_names_skipping(db, name, fields) ==
    add_struct(db, name, pack_by_names_skipping(db, fields, <<>>, 0).val)

add_struct_by_names(db, name, fields) ==
    LET packed == pack_by_names(db, fields, <<>>, 0)
    IN IF ~packed.ok THEN DbErr(db, packed.err)
       ELSE add_struct(db, name, packed.val)

(***************************************************************************)
(* formats/btf.rs.  A btf::Type is a record [base_type, num_refs, names];  *)
(* its base_type has one shape for every variant, like BaseType above.     *)
(***************************************************************************)
BtfOther == [kind |-> "Other", used_bits |-> 0, bits |-> 0, is_signed |-> FALSE,
             elem_type_id |-> 0, num_elements |-> 0, members |-> <<>>]

BtfInteger(used_bits, bits, is_signed) ==
    [BtfOther EXCEPT !.kind = "Integer", !.used_bits = used_bits, !.bits = bits,
                     !.is_signed = is_signed]

BtfFloat(bits) == [BtfOther EXCEPT !.kind = "Float", !.bits = bits]

BtfArray(elem_type_id, num_elements) ==
    [BtfOther EXCEPT !.kind = "Array", !.elem_type_id = elem_type_id,
                     !.num_elements = num_elements]

BtfMember(name, offset, type_id) == [name |-> name, offset |-> offset, type_id |-> type_id]

BtfStruct(members) == [BtfOther EXCEPT !.kind = "Struct", !.members = members]

BtfType(base_type, num_refs, names) ==
    [base_type |-> base_type, num_refs |-> num_refs, names |-> names]

\* format!(".btf.{}", i)
BtfIdName(i) == ".btf." \o ToString(i)

\* `?` on a Result of the database: go on with K on Ok, hand the Err back
DbThen(r, K(_)) == IF r.ok THEN K(r) ELSE r

add_btf_void(db, name, num_refs) == add_type(db, name, MkType(BaseVoid, num_refs))

add_btf_integer(db, name, integer, num_refs) ==
    add_type(db, name, MkType(BaseInteger(integer.used_bits, integer.bits,
                                          integer.is_signed), num_refs))

add_btf_float(db, name, float, num_refs) ==
    add_type(db, name, MkType(BaseFloat(float.bits), num_refs))

add_btf_array(db, name, array, num_refs) ==
    IF ~HasName(db, BtfIdName(array.elem_type_id)) THEN DbErr(db, "NoConversion")
    ELSE LET element_type_id == get_type_id_by_name(db, BtfIdName(array.elem_type_id))
             new_array == Array_create(db, element_type_id, array.num_elements)
         IN IF ~new_array.ok THEN DbErr(db, new_array.err)
            ELSE add_type(db, name, MkType(new_array.val, num_refs))

\* the loop over structure.members: fields is the Vec built so far
RECURSIVE btf_struct_fields(_, _, _)
btf_struct_fields(db, members, fields) ==
    IF members = <<>> THEN [ok |-> TRUE, err |-> "", val |-> fields]
    ELSE IF ~HasName(db, BtfIdName(Head(members).type_id))
    THEN [ok |-> FALSE, err |-> "NoConversion", val |-> <<>>]
    ELSE btf_struct_fields(db, Tail(members),
             Append(fields,
                    <<Head(members).name,
                      Field(Head(members).offset,
                            get_type_id_by_name(db, BtfIdName(Head(members).type_id)))>>))

add_btf_struct(db, name, structure, num_refs) ==
    LET fields == btf_struct_fields(db, structure.members, <<>>)
    IN IF ~fields.ok THEN DbErr(db, fields.err)
       ELSE LET new_struct == Struct_create(db, fields.val)
            IN IF ~new_struct.ok THEN DbErr(db, new_struct.err)
               ELSE add_type(db, name, MkType(new_struct.val, num_refs))

add_btf_type(db, name, btf_type, num_refs) ==
    CASE btf_type.kind = "Integer" -> add_btf_integer(db, name, btf_type, num_refs)
      [] btf_type.kind = "Float"   -> add_btf_float(db, name, btf_type, num_refs)
      [] btf_type.kind = "Array"   -> add_btf_array(db, name, btf_type, num_refs)
      [] btf_type.kind = "Struct"  -> add_btf_struct(db, name, btf_type, num_refs)
      [] OTHER                     -> add_btf_void(db, name, num_refs)

\* add_btf_types, first loop: a placeholder for source types i .. n - 1
RECURSIVE btf_placeholders(_, _, _)
btf_placeholders(r, i, n) ==
    IF i >= n THEN r
    ELSE DbThen(add_btf_void(r.db, BtfIdName(i), 0),
                LAMBDA r1 : btf_placeholders(r1, i + 1, n))

\* add_btf_types, `for name in &btf_type.names`
RECURSIVE btf_names(_, _, _)
btf_names(r, names, btf_type) ==
    IF names = <<>> THEN r
    ELSE DbThen(add_btf_type(r.db, Head(names), btf_type.base_type, btf_type.num_refs),
                LAMBDA r1 : btf_names(r1, Tail(names), btf_type))

\* add_btf_types, second loop, from source type i on
RECURSIVE btf_fill(_, _, _)
btf_fill(r, btf, i) ==
    IF i >= Len(btf) THEN r
    ELSE DbThen(add_btf_type(r.db, BtfIdName(i), btf[i + 1].base_type,
                             btf[i + 1].num_refs),
           LAMBDA r1 :
             DbThen(btf_names(r1, btf[i + 1].names, btf[i + 1]),
                    LAMBDA r2 : btf_fill(r2, btf, i + 1)))

add_btf_types(db, btf) ==
    DbThen(btf_placeholders(DbOk(db, 0), 0, Len(btf)),
           LAMBDA r : btf_fill(r, btf, 0))

(***************************************************************************)
(* SpecDb: up to MaxDbOps operations on a TypeDatabase that starts empty   *)
(* (TypeDatabase::default()).                                              *)
(***************************************************************************)
TheDb == Db(types, name_map)

DbNames == {NoName, "a", "b"}
DbIds   == {0, 1, 2}

DbFieldLists ==
    { << <<"f", Field(0, 0)>>, <<"g", Field(64, 1)>> >>,
      << <<"f", Field(8, 0)>> >> }
DbIdLists   == { << <<"f", 0>>, <<"g", 1>> >>, << <<"f", 1>> >> }
DbNameLists == { << <<"f", "a">>, <<"g", "b">> >>, << <<"f", "a">>, <<"g", "zz">> >> }

\* Types a caller hands to add_type: void, a void pointer, or a clone of a stored type.
DbGivenTypes == {TypeDefault, MkType(BaseVoid, 1)} \cup {types[i] : i \in 1..Len(types)}

DbIdle == types = <<>> /\ name_map = EmptyMap
          /\ dbLast = [op |-> "off", ok |-> TRUE, err |-> "", id |-> 0, n |-> 0,
                    name |-> NoName, btf |-> <<>>, fields |-> <<>>]

InitDb ==
    /\ types = <<>>
    /\ name_map = EmptyMap
    /\ dbLast = [op |-> "new", ok |-> TRUE, err |-> "", id |-> 0, n |-> 0,
                  name |-> NoName, btf |-> <<>>, fields |-> <<>>]

\* dbLast also keeps the inputs of the operation: the name and, for
\* add_btf_types, the list of source types.
DbApply(op, name, btf, r) ==
    /\ dbLast.n < MaxDbOps
    /\ types' = r.db.types
    /\ name_map' = r.db.name_map
    /\ dbLast' = [op |-> op, ok |-> r.ok, err |-> r.err, id |-> r.id,
                  n |-> dbLast.n + 1, name |-> name, btf |-> btf,
                  fields |-> <<>>]

DbAddType ==
    \E name \in DbNames, ty \in DbGivenTypes :
        DbApply("add_type", name, <<>>, add_type(TheDb, name, ty))

DbAddInteger ==
    \E name \in DbNames, bytes \in {1, 8} :
        DbApply("add_integer", name, <<>>, add_integer(TheDb, name, bytes, FALSE))

DbAddArray ==
    \E name \in DbNames, id \in DbIds :
        DbApply("add_array", name, <<>>, add_array(TheDb, name, id, 2))

DbAddStruct ==
    \E name \in DbNames, fields \in DbFieldLists :
        DbApply("add_struct", name, <<>>, add_struct(TheDb, name, fields))

DbAddStructByIds ==
    \E name \in DbNames, fields \in DbIdLists :
        DbApply("add_struct_by_ids", name, <<>>, add_struct_by_ids(TheDb, name, fields))

DbAddStructByNames ==
    \E name \in DbNames, fields \in DbNameLists :
        DbApply("add_struct_by_names", name, <<>>, add_struct_by_names(TheDb, name, fields))

(***************************************************************************)
(* SpecPack: add_struct_by_ids or add_struct_by_names, once, on a database *)
(* that holds integers of 8, 4, 2 and 1 bytes and an array, with a list of *)
(* up to MaxFields fields of these types; the field names are distinct.    *)
(***************************************************************************)
PackTypeNames == << "u64", "u32", "u16", "u8", "arr" >>

PackDb ==
    LET d1 == add_integer(Db(<<>>, EmptyMap), "u64", 8, FALSE).db
        d2 == add_integer(d1, "u32", 4, FALSE).db
        d3 == add_integer(d2, "u16", 2, FALSE).db
        d4 == add_integer(d3, "u8", 1, FALSE).db
    IN add_array(d4, "arr", 3, 3).db

PackFieldNames == [k \in 1..(MaxFields + 1) |-> "f" \o ToString(k)]

\* the type ids of the fields, in order
PackLists == UNION {[1..k -> 0..(Len(PackTypeNames) - 1)] : k \in 0..MaxFields}

InitPack ==
    /\ types = PackDb.types
    /\ name_map = PackDb.name_map
    /\ \E ids \in PackLists :
          dbLast = [op |-> "new", ok |-> TRUE, err |-> "", id |-> 0, n |-> 0,
                    name |-> NoName, btf |-> <<>>, fields |-> ids]

PackApply(op, r) ==
    /\ types' = r.db.types
    /\ name_map' = r.db.name_map
    /\ dbLast' = [dbLast EXCEPT !.op = op, !.ok = r.ok, !.err = r.err, !.id = r.id,
                                !.n = @ + 1, !.name = "s"]

PackByIds ==
    /\ dbLast.op = "new"
    /\ PackApply("add_struct_by_ids",
                 add_struct_by_ids(TheDb, "s",
                     [k \in 1..Len(dbLast.fields) |->
                         <<PackFieldNames[k], dbLast.fields[k]>>]))

PackByNames ==
    /\ dbLast.op = "new"
    /\ PackApply("add_struct_by_names",
                 add_struct_by_names(TheDb, "s",
                     [k \in 1..Len(dbLast.fields) |->
                         <<PackFieldNames[k], PackTypeNames[dbLast.fields[k] + 1]>>]))

(***************************************************************************)
(* The AST the parser yields (peginate! grammar, script.rs 13-66).  An     *)
(* Immediate is the number its digit string denotes.                       *)
(***************************************************************************)
Some(v) == [some |-> TRUE, val |-> v]
None    == [some |-> FALSE, val |-> 0]

TypeDecl(is_ref, name) == [some |-> TRUE, is_ref |-> is_ref, name |-> name]
NoDecl                 == [some |-> FALSE, is_ref |-> FALSE, name |-> ""]

FieldAccess(name)   == [kind |-> "FieldAccess", name |-> name, element |-> 0]
ArrayIndex(element) == [kind |-> "ArrayIndex", name |-> "", element |-> element]

LValue(prefix, name, derefs) == [prefix |-> prefix, name |-> name, derefs |-> derefs]
FunctionCall(name, args)     == [name |-> name, args |-> args]

NoLValue == LValue("", "", <<>>)
NoCall   == FunctionCall("", <<>>)

RImmediate(n) == [kind |-> "Immediate", imm |-> n, lval |-> NoLValue, call |-> NoCall]
RLValue(l)    == [kind |-> "LValue", imm |-> 0, lval |-> l, call |-> NoCall]
RCall(c)      == [kind |-> "FunctionCall", imm |-> 0, lval |-> NoLValue, call |-> c]

Assignment(left, type_name, right) ==
    [left |-> left, type_name |-> type_name, right |-> right]
Condition(left, op, right) == [left |-> left, op |-> op, right |-> right]
TypedArgument(name, type_name) == [name |-> name, type_name |-> type_name]

(***************************************************************************)
(* compiler/script.rs.  The mutable Compiler is threaded as a record e:    *)
(*   ins, stack, vars, expr_num   the fields of Compiler;                  *)
(*   err, ekind                   the Err a `?` or semantics_bail! returns *)
(*                                ("" while Ok); the line is expr_num;     *)
(*   off, ty                      the Ok value of the last call;           *)
(*   path                         the block being emitted (for tags).      *)
(* Once err is set every later step returns e unchanged.                   *)
(***************************************************************************)
MAX_STACK_SIZE == 4096

U64Type == TypeFrom(BaseInteger(64, 64, FALSE))

StackLoc(o)         == [kind |-> "Stack", val |-> o]
SpecialImmediate(v) == [kind |-> "SpecialImmediate", val |-> v]
VariableInfo(var_type, location) == [var_type |-> var_type, location |-> location]

Ok(e) == e.err = ""

semantics_bail(e, message) == [e EXCEPT !.err = message, !.ekind = "Semantics"]

Ret(e, off, ty) == [e EXCEPT !.off = off, !.ty = ty]

Push(e, i) ==
    [e EXCEPT !.ins = Append(@, Retag(i, [path |-> e.path, role |-> "", ifid |-> 0]))]

RECURSIVE PushAll(_, _)
PushAll(e, is) == IF is = <<>> THEN e ELSE PushAll(Push(e, Head(is)), Tail(is))

type_from_decl(e, decl) ==
    IF ~HasTypeByName(TheDb, decl.name)
    THEN semantics_bail(e, "Type with name doesn't exist")
    ELSE LET ty == get_type_by_name(TheDb, decl.name)
         IN Ret(e, 0, IF decl.is_ref THEN [ty EXCEPT !.num_refs = @ + 1] ELSE ty)

HasVariable(e, name) == name \in DOMAIN e.vars

\* str::parse::<T> of a digit string denoting n (the model's n stay below 2^31)
ParseFits(T, n) ==
    CASE T = "u8"  -> n <= 255
      [] T = "i8"  -> n <= 127
      [] T = "u16" -> n <= 65535
      [] T = "i16" -> n <= 32767
      [] OTHER     -> TRUE

parse_immediate(e, T, n) ==
    IF ParseFits(T, n) THEN e
    ELSE semantics_bail(e, "Failed to parse immediate value")

\* `imm as i8`, `imm as i16`: the unsigned value reinterpreted
AsSigned(n, bits) ==
    CASE bits = 8  -> IF n >= 128 THEN n - 256 ELSE n
      [] bits = 16 -> IF n >= 32768 THEN n - 65536 ELSE n
      [] OTHER     -> n

get_stack(e) == -(e.stack)

\* `?`: go on with K on an Ok value, hand an Err back
AndThen(e, K(_)) == IF Ok(e) THEN K(e) ELSE e

\* push_stack without the check against MAX_STACK_SIZE
push_stack_unchecked(e, size) ==
    Ret([e EXCEPT !.stack = @ + size], -(e.stack + size), e.ty)

push_stack(e, size) ==
    IF e.stack + size > MAX_STACK_SIZE
    THEN semantics_bail(e, "Stack size exceeded 4096 bytes with this assignment")
    ELSE Ret([e EXCEPT !.stack = @ + size], -(e.stack + size), e.ty)

\* A store whose word repeats the byte `value`: the repeated word itself for
\* value 0 or one byte; otherwise imm holds the byte and aux marks repetition.
RepStore(offset, value, bytes) ==
    IF value = 0 \/ bytes = 1 THEN store(R10, offset, value, bytes * 8)
    ELSE [store(R10, offset, value, bytes * 8) EXCEPT !.aux = "bytes"]

\* one `for _ in 0..count` loop: count stores of `bytes` bytes from offset on
RangeStores(offset, count, bytes, value) ==
    [k \in 1..count |-> RepStore(offset + (k - 1) * bytes, value, bytes)]

\* emit_init_stack_range with the loop over 8-byte words only
emit_init_stack_range_words_only(e, offset, value, size) ==
    PushAll(e, RangeStores(offset, size \div 8, 8, value))

\* n8, n4, n2, n1: the trip counts of the four loops; rem8, rem4, rem2: the
\* value of `remaining` (assigned to size) after each of the first three;
\* off8, off4, off2: the value of `offset` after each of them.
emit_init_stack_range(e, offset, value, size) ==
    LET n8   == size \div 8
        rem8 == size - 8 * n8
        off8 == offset + 8 * n8
        n4   == rem8 \div 4
        rem4 == rem8 - 4 * n4
        off4 == off8 + 4 * n4
        n2   == rem4 \div 2
        rem2 == rem4 - 2 * n2
        off2 == off4 + 2 * n2
        n1   == rem2
    IN PushAll(e, RangeStores(offset, n8, 8, value) \o RangeStores(off8, n4, 4, value)
                  \o RangeStores(off4, n2, 2, value) \o RangeStores(off2, n1, 1, value))

IntParseType(size, is_signed) ==
    CASE size = 1 -> IF is_signed THEN "i8" ELSE "u8"
      [] size = 2 -> IF is_signed THEN "i16" ELSE "u16"
      [] size = 4 -> IF is_signed THEN "i32" ELSE "u32"
      [] OTHER    -> IF is_signed THEN "i64" ELSE "u64"

\* emit_push_immediate once the offset is known (e1.off)
emit_push_immediate_at(e1, imm, cast_type, size) ==
    IF Type_is_pointer(cast_type)
    THEN AndThen(parse_immediate(e1, "u8", imm),
                 LAMBDA e2 : Ret(Push(e2, store(R10, e1.off, AsSigned(imm, 8), 8)),
                                 e1.off, cast_type))
    ELSE IF cast_type.base_type.kind = "Void"
    THEN AndThen(parse_immediate(e1, "i64", imm),
                 LAMBDA e2 : Ret(Push(e2, store(R10, e1.off, imm, 64)),
                                 e1.off, U64Type))
    ELSE IF cast_type.base_type.kind = "Integer"
    THEN IF size \notin {1, 2, 4, 8}
         THEN semantics_bail(e1, "n-bit integers not supported")
         ELSE AndThen(parse_immediate(e1, IntParseType(size,
                                              cast_type.base_type.is_signed), imm),
                      LAMBDA e2 : Ret(Push(e2, store(R10, e1.off,
                                                     AsSigned(imm, size * 8),
                                                     size * 8)),
                                      e1.off, cast_type))
    ELSE AndThen(parse_immediate(e1, "i8", imm),
                 LAMBDA e2 : Ret(emit_init_stack_range(e2, e1.off, imm, size),
                                 e1.off, cast_type))

emit_push_immediate(e, imm, cast_type, use_offset) ==
    IF Type_get_size(cast_type) = 0 /\ cast_type.base_type.kind # "Void"
    THEN semantics_bail(e, "Can't assign to zero-sized type")
    ELSE AndThen(IF use_offset.some THEN Ret(e, use_offset.val, e.ty)
                 ELSE push_stack(e, Type_get_size(cast_type)),
                 LAMBDA e1 : emit_push_immediate_at(e1, imm, cast_type,
                                                    Type_get_size(cast_type)))

emit_push_register(e, reg, offset) ==
    AndThen(IF offset.some THEN Ret(e, offset.val, e.ty) ELSE push_stack(e, 8),
            LAMBDA e1 : Push(e1, storex64(R10, e1.off, reg)))

ProbeRead == 4

\* emit_deref_register_to_stack that stores the register itself
emit_deref_register_to_stack_by_store(e, reg, deref_type, offset) ==
    Push(e, storex64(R10, offset, reg))

emit_deref_register_to_stack(e, reg, deref_type, offset) ==
    PushAll(e, << movx64(R1, R10), add64(R1, offset),
                  mov64(R2, Type_get_size(deref_type)),
                  movx64(R3, reg), call(ProbeRead) >>)

get_field_access(e, structure, field_name) ==
    IF structure.base_type.kind # "Struct"
    THEN semantics_bail(e, "Can't field-deref a non-structure type")
    ELSE IF field_name \notin DOMAIN structure.base_type.fields
    THEN semantics_bail(e, "Field doesn't exist on type")
    ELSE LET field == structure.base_type.fields[field_name]
         IN IF field.offset % 8 # 0
            THEN semantics_bail(e, "Bit-field accesses not supported")
            ELSE IF ~HasId(TheDb, field.type_id)
            THEN semantics_bail(e, "Internal error; type id invalid")
            ELSE Ret(e, field.offset \div 8, get_type_by_id(TheDb, field.type_id))

get_array_index(e, array, index) ==
    IF array.base_type.kind # "Array"
    THEN semantics_bail(e, "Can't array-deref a non-array type")
    ELSE AndThen(parse_immediate(e, "u32", index),
           LAMBDA e1 :
             IF index > array.base_type.num_elements
             THEN semantics_bail(e1, "Out-of-bounds array access")
             ELSE IF ~HasId(TheDb, array.base_type.element_type_id)
             THEN semantics_bail(e1, "Internal error; type id invalid")
             ELSE LET element_type ==
                          get_type_by_id(TheDb, array.base_type.element_type_id)
                  IN Ret(e1, Type_get_size(element_type) * index, element_type))

RECURSIVE get_deref_offset_loop(_, _, _, _)
get_deref_offset_loop(e, cur_type, derefs, offset) ==
    IF derefs = <<>>
    THEN IF ~FitsI16(offset)
         THEN semantics_bail(e, "Type is too large to deref")
         ELSE Ret(e, offset, cur_type)
    ELSE IF Type_is_pointer(cur_type)
    THEN semantics_bail(e, "Can't deref an offset through an indirection")
    ELSE AndThen(IF Head(derefs).kind = "FieldAccess"
                 THEN get_field_access(e, cur_type, Head(derefs).name)
                 ELSE get_array_index(e, cur_type, Head(derefs).element),
                 LAMBDA e1 : get_deref_offset_loop(e1, e1.ty, Tail(derefs),
                                                   offset + e1.off))

\* get_deref_offset without the test of cur_type.is_pointer()
RECURSIVE get_deref_offset_loop_unchecked(_, _, _, _)
get_deref_offset_loop_unchecked(e, cur_type, derefs, offset) ==
    IF derefs = <<>>
    THEN IF ~FitsI16(offset)
         THEN semantics_bail(e, "Type is too large to deref")
         ELSE Ret(e, offset, cur_type)
    ELSE AndThen(IF Head(derefs).kind = "FieldAccess"
                 THEN get_field_access(e, cur_type, Head(derefs).name)
                 ELSE get_array_index(e, cur_type, Head(derefs).element),
                 LAMBDA e1 : get_deref_offset_loop_unchecked(e1, e1.ty, Tail(derefs),
                                                             offset + e1.off))

get_deref_offset_unchecked(e, ty, derefs) ==
    get_deref_offset_loop_unchecked(e, ty, derefs, 0)

get_deref_offset(e, ty, derefs) ==
    get_deref_offset_loop(e, ty, derefs, 0)

emit_field_access(e, reg, structure, field_access) ==
    AndThen(get_field_access(e, structure, field_access.name),
            LAMBDA e1 : IF e1.off > 0 THEN Push(e1, add64(reg, e1.off)) ELSE e1)

emit_index_array(e, reg, array, index) ==
    AndThen(get_array_index(e, array, index.element),
            LAMBDA e1 : IF e1.off > 0 THEN Push(e1, add64(reg, e1.off)) ELSE e1)

RECURSIVE emit_apply_derefs_to_reg(_, _, _, _)
emit_apply_derefs_to_reg(e, reg, var_type, derefs) ==
    IF derefs = <<>> THEN Ret(e, e.off, var_type)
    ELSE LET e1 == IF Type_is_pointer(var_type) THEN Push(e, loadx(reg, reg, 0, 64))
                   ELSE e
         IN AndThen(IF Head(derefs).kind = "FieldAccess"
                    THEN emit_field_access(e1, reg, var_type, Head(derefs))
                    ELSE emit_index_array(e1, reg, var_type, Head(derefs)),
                    LAMBDA e2 : emit_apply_derefs_to_reg(e2, reg, e2.ty, Tail(derefs)))

emit_set_register_to_lvalue_addr(e, reg, lval) ==
    IF ~HasVariable(e, lval.name) THEN semantics_bail(e, "No variable with name")
    ELSE LET info == e.vars[lval.name]
         IN IF info.location.kind = "SpecialImmediate"
            THEN semantics_bail(e, "Variable is a capture; captures can't be assigned to")
            ELSE emit_apply_derefs_to_reg(
                     PushAll(e, << movx64(reg, R10), add64(reg, info.location.val) >>),
                     reg, info.var_type, lval.derefs)

\* emit_push_lvalue once the offset is known (e2.off)
emit_push_lvalue_at(e2, lval, real_type) ==
    CASE lval.prefix = "" ->
            Ret(emit_deref_register_to_stack(e2, R6, real_type, e2.off),
                e2.off, real_type)
      [] lval.prefix = "*" ->
            semantics_bail(e2, "Dereferencing is not currently supported")
      [] OTHER ->
            Ret(Push(e2, storex64(R10, e2.off, R6)), e2.off,
                [real_type EXCEPT !.num_refs = @ + 1])

emit_push_lvalue(e, lval, cast_type, use_offset) ==
    AndThen(emit_set_register_to_lvalue_addr(e, R6, lval),
      LAMBDA e1 :
        LET real_type == IF cast_type.base_type.kind = "Void" THEN e1.ty
                         ELSE cast_type
        IN IF Type_get_size(real_type) # Type_get_size(e1.ty)
           THEN semantics_bail(e1, "Cannot assign two types of different sizes")
           ELSE AndThen(IF use_offset.some THEN Ret(e1, use_offset.val, e1.ty)
                        ELSE push_stack(e1, Type_get_size(real_type)),
                        LAMBDA e2 : emit_push_lvalue_at(e2, lval, real_type)))

(***************************************************************************)
(* helpers.rs.  A member of the Helpers enumeration is named by its        *)
(* identifier; MemoryOpLoadType values by theirs.                          *)
(***************************************************************************)
\* enum Helpers: <<member, discriminant>>, in the order of declaration
HelpersEnum ==
    << <<"MapLookupElem", 1>>, <<"MapUpdateElem", 2>>, <<"MapDeleteElem", 3>>,
       <<"ProbeRead", 4>>, <<"TracePrintk", 6>>, <<"SkbStoreBytes", 9>>,
       <<"L3CsumReplace", 10>>, <<"L4CsumReplace", 11>>, <<"TailCall", 12>>,
       <<"CloneRedirect", 13>>, <<"GetCurrentPidTgid", 14>>, <<"GetCurrentUidGid", 15>>,
       <<"GetCurrentComm", 16>>, <<"SkbVlanPush", 18>>, <<"SkbVlanPop", 19>>,
       <<"SkbGetTunnelKey", 20>>, <<"SkbSetTunnelKey", 21>>, <<"Redirect", 23>>,
       <<"PerfEventOutput", 25>>, <<"SkbLoadBytes", 26>>, <<"GetStackid", 27>>,
       <<"SkbGetTunnelOpt", 29>>, <<"SkbSetTunnelOpt", 30>>, <<"SkbChangeProto", 31>>,
       <<"SkbChangeType", 32>>, <<"SkbUnderCgroup", 33>>, <<"ProbeWriteUser", 36>>,
       <<"CurrentTaskUnderCgroup", 37>>, <<"SkbChangeTail", 38>>, <<"SkbPullData", 39>>,
       <<"GetNumaNodeId", 42>>, <<"SkbChangeHead", 43>>, <<"XdpAdjustHead", 44>>,
       <<"ProbeReadStr", 45>>, <<"SetHash", 48>>, <<"Setsockopt", 49>>,
       <<"SkbAdjustRoom", 50>>, <<"RedirectMap", 51>>, <<"SkRedirectMap", 52>>,
       <<"SockMapUpdate", 53>>, <<"XdpAdjustMeta", 54>>, <<"PerfEventReadValue", 55>>,
       <<"PerfProgReadValue", 56>>, <<"Getsockopt", 57>>, <<"OverrideReturn", 58>>,
       <<"SockOpsCbFlagsSet", 59>>, <<"MsgRedirectMap", 60>>, <<"MsgApplyBytes", 61>>,
       <<"MsgCorkBytes", 62>>, <<"MsgPullData", 63>>, <<"Bind", 64>>,
       <<"XdpAdjustTail", 65>>, <<"SkbGetXfrmState", 66>>, <<"GetStack", 67>>,
       <<"SkbLoadBytesRelative", 68>>, <<"FibLookup", 69>>, <<"SockHashUpdate", 70>>,
       <<"MsgRedirectHash", 71>>, <<"SkRedirectHash", 72>>, <<"LwtPushEncap", 73>>,
       <<"LwtSeg6StoreBytes", 74>>, <<"LwtSeg6AdjustSrh", 75>>, <<"LwtSeg6Action", 76>>,
       <<"RcRepeat", 77>>, <<"RcKeydown", 78>>, <<"SkSelectReuseport", 82>>,
       <<"SkRelease", 86>>, <<"MapPushElem", 87>>, <<"MapPopElem", 88>>,
       <<"MapPeekElem", 89>>, <<"MsgPushData", 90>>, <<"MsgPopData", 91>>,
       <<"RcPointerRel", 92>>, <<"SpinLock", 93>>, <<"SpinUnlock", 94>>,
       <<"SkbEcnSetCe", 97>>, <<"TcpCheckSyncookie", 100>>, <<"SysctlGetName", 101>>,
       <<"SysctlGetCurrentValue", 102>>, <<"SysctlGetNewValue", 103>>, <<"SysctlSetNewValue", 104>>,
       <<"Strtol", 105>>, <<"Strtoul", 106>>, <<"SkStorageDelete", 108>>,
       <<"SendSignal", 109>>, <<"SkbOutput", 111>>, <<"ProbeReadUser", 112>>,
       <<"ProbeReadKernel", 113>>, <<"ProbeReadUserStr", 114>>, <<"ProbeReadKernelStr", 115>>,
       <<"TcpSendAck", 116>>, <<"SendSignalThread", 117>>, <<"ReadBranchRecords", 119>>,
       <<"GetNsCurrentPidTgid", 120>>, <<"XdpOutput", 121>>, <<"SkAssign", 124>>,
       <<"SeqPrintf", 126>>, <<"SeqWrite", 127>>, <<"RingbufOutput", 130>>,
       <<"CsumLevel", 135>>, <<"GetTaskStack", 141>>, <<"LoadHdrOpt", 142>>,
       <<"StoreHdrOpt", 143>>, <<"ReserveHdrOpt", 144>>, <<"DPath", 147>>,
       <<"CopyFromUser", 148>>, <<"SnprintfBtf", 149>>, <<"SeqPrintfBtf", 150>>,
       <<"RedirectNeigh", 152>>, <<"RedirectPeer", 155>>, <<"TaskStorageDelete", 157>>,
       <<"BprmOptsSet", 159>>, <<"ImaInodeHash", 161>>, <<"CheckMtu", 163>>,
       <<"ForEachMapElem", 164>>, <<"Snprintf", 165>> >>

\* the if / else-if chain of from_string, top to bottom: <<name, member>>
FromStringChain ==
    << <<"map_update_elem", "MapUpdateElem">>, <<"map_delete_elem", "MapDeleteElem">>,
       <<"probe_read", "ProbeRead">>, <<"trace_printk", "TracePrintk">>,
       <<"skb_store_bytes", "SkbStoreBytes">>, <<"l3_csum_replace", "L3CsumReplace">>,
       <<"l4_csum_replace", "L4CsumReplace">>, <<"tail_call", "TailCall">>,
       <<"clone_redirect", "CloneRedirect">>, <<"get_current_pid_tgid", "GetCurrentPidTgid">>,
       <<"get_current_uid_gid", "GetCurrentUidGid">>, <<"get_current_comm", "GetCurrentComm">>,
       <<"skb_vlan_push", "SkbVlanPush">>, <<"skb_vlan_pop", "SkbVlanPop">>,
       <<"skb_get_tunnel_key", "SkbGetTunnelKey">>, <<"skb_set_tunnel_key", "SkbSetTunnelKey">>,
       <<"redirect", "Redirect">>, <<"perf_event_output", "PerfEventOutput">>,
       <<"skb_load_bytes", "SkbLoadBytes">>, <<"get_stackid", "GetStackid">>,
       <<"skb_get_tunnel_opt", "SkbGetTunnelOpt">>, <<"skb_set_tunnel_opt", "SkbSetTunnelOpt">>,
       <<"skb_change_proto", "SkbChangeProto">>, <<"skb_change_type", "SkbChangeType">>,
       <<"skb_under_cgroup", "SkbUnderCgroup">>, <<"probe_write_user", "ProbeWriteUser">>,
       <<"current_task_under_cgroup", "CurrentTaskUnderCgroup">>, <<"skb_change_tail", "SkbChangeTail">>,
       <<"skb_pull_data", "SkbPullData">>, <<"get_numa_node_id", "GetNumaNodeId">>,
       <<"skb_change_head", "SkbChangeHead">>, <<"xdp_adjust_head", "XdpAdjustHead">>,
       <<"probe_read_str", "ProbeReadStr">>, <<"set_hash", "SetHash">>,
       <<"setsockopt", "Setsockopt">>, <<"skb_adjust_room", "SkbAdjustRoom">>,
       <<"redirect_map", "RedirectMap">>, <<"sk_redirect_map", "SkRedirectMap">>,
       <<"sock_map_update", "SockMapUpdate">>, <<"xdp_adjust_meta", "XdpAdjustMeta">>,
       <<"perf_event_read_value", "PerfEventReadValue">>, <<"perf_prog_read_value", "PerfProgReadValue">>,
       <<"getsockopt", "Getsockopt">>, <<"override_return", "OverrideReturn">>,
       <<"sock_ops_cb_flags_set", "SockOpsCbFlagsSet">>, <<"msg_redirect_map", "MsgRedirectMap">>,
       <<"msg_apply_bytes", "MsgApplyBytes">>, <<"msg_cork_bytes", "MsgCorkBytes">>,
       <<"msg_pull_data", "MsgPullData">>, <<"bind", "Bind">>,
       <<"xdp_adjust_tail", "XdpAdjustTail">>, <<"skb_get_xfrm_state", "SkbGetXfrmState">>,
       <<"get_stack", "GetStack">>, <<"skb_load_bytes_relative", "SkbLoadBytesRelative">>,
       <<"fib_lookup", "FibLookup">>, <<"sock_hash_update", "SockHashUpdate">>,
       <<"msg_redirect_hash", "MsgRedirectHash">>, <<"sk_redirect_hash", "SkRedirectHash">>,
       <<"lwt_push_encap", "LwtPushEncap">>, <<"lwt_seg6_store_bytes", "LwtSeg6StoreBytes">>,
       <<"lwt_seg6_adjust_srh", "LwtSeg6AdjustSrh">>, <<"lwt_seg6_action", "LwtSeg6Action">>,
       <<"rc_repeat", "RcRepeat">>, <<"rc_keydown", "RcKeydown">>,
       <<"sk_select_reuseport", "SkSelectReuseport">>, <<"sk_release", "SkRelease">>,
       <<"map_push_elem", "MapPushElem">>, <<"map_pop_elem", "MapPopElem">>,
       <<"map_peek_elem", "MapPeekElem">>, <<"msg_push_data", "MsgPushData">>,
       <<"msg_pop_data", "MsgPopData">>, <<"rc_pointer_rel", "RcPointerRel">>,
       <<"spin_lock", "SpinLock">>, <<"spin_unlock", "SpinUnlock">>,
       <<"skb_ecn_set_ce", "SkbEcnSetCe">>, <<"tcp_check_syncookie", "TcpCheckSyncookie">>,
       <<"sysctl_get_name", "SysctlGetName">>, <<"sysctl_get_current_value", "SysctlGetCurrentValue">>,
       <<"sysctl_get_new_value", "SysctlGetNewValue">>, <<"sysctl_set_new_value", "SysctlSetNewValue">>,
       <<"strtol", "Strtol">>, <<"strtoul", "Strtoul">>,
       <<"sk_storage_delete", "SkStorageDelete">>, <<"send_signal", "SendSignal">>,
       <<"skb_output", "SkbOutput">>, <<"probe_read_user", "ProbeReadUser">>,
       <<"probe_read_kernel", "ProbeReadKernel">>, <<"probe_read_user_str", "ProbeReadUserStr">>,
       <<"probe_read_kernel_str", "ProbeReadKernelStr">>, <<"tcp_send_ack", "TcpSendAck">>,
       <<"send_signal_thread", "SendSignalThread">>, <<"read_branch_records", "ReadBranchRecords">>,
       <<"get_ns_current_pid_tgid", "GetNsCurrentPidTgid">>, <<"xdp_output", "XdpOutput">>,
       <<"sk_assign", "SkAssign">>, <<"seq_printf", "SeqPrintf">>,
       <<"seq_write", "SeqWrite">>, <<"ringbuf_output", "RingbufOutput">>,
       <<"csum_level", "CsumLevel">>, <<"get_task_stack", "GetTaskStack">>,
       <<"load_hdr_opt", "LoadHdrOpt">>, <<"store_hdr_opt", "StoreHdrOpt">>,
       <<"reserve_hdr_opt", "ReserveHdrOpt">>, <<"d_path", "DPath">>,
       <<"copy_from_user", "CopyFromUser">>, <<"snprintf_btf", "SnprintfBtf">>,
       <<"seq_printf_btf", "SeqPrintfBtf">>, <<"redirect_neigh", "RedirectNeigh">>,
       <<"redirect_peer", "RedirectPeer">>, <<"task_storage_delete", "TaskStorageDelete">>,
       <<"bprm_opts_set", "BprmOptsSet">>, <<"ima_inode_hash", "ImaInodeHash">>,
       <<"check_mtu", "CheckMtu">>, <<"for_each_map_elem", "ForEachMapElem">>,
       <<"snprintf", "Snprintf">> >>

\* `helper as u32`
Helpers_as_u32(helper) ==
    HelpersEnum[CHOOSE k \in DOMAIN HelpersEnum : HelpersEnum[k][1] = helper][2]

SomeHelper(helper) == [some |-> TRUE, val |-> helper]
NoHelper           == [some |-> FALSE, val |-> ""]

\* the branches of the chain whose comparison with name succeeds
FromStringHits(name) ==
    {k \in DOMAIN FromStringChain : FromStringChain[k][1] = name}

Helpers_from_string(name) ==
    IF FromStringHits(name) = {} THEN NoHelper
    ELSE SomeHelper(FromStringChain[CHOOSE k \in FromStringHits(name) :
                                       \A j \in FromStringHits(name) : k <= j][2])

get_arg_types(helper) ==
    CASE helper = "MapLookupElem" -> <<"Map", "MapIndex", "Void", "Void", "Void">>
      [] helper = "MapUpdateElem" -> <<"Map", "MapIndex", "MapValue", "Void", "Void">>
      [] helper = "MapDeleteElem" -> <<"Map", "MapIndex", "Void", "Void", "Void">>
      [] helper = "MapPushElem"   -> <<"Map", "MapValue", "Void", "Void", "Void">>
      [] helper = "MapPopElem"    -> <<"Map", "MapValue", "Void", "Void", "Void">>
      [] helper = "MapPeekElem"   -> <<"Map", "MapValue", "Void", "Void", "Void">>
      [] OTHER                    -> <<"Void", "Void", "Void", "Void", "Void">>

\* The source types a Btf can hold in the model: an integer with a name, a
\* pointer, an array of source type 1, an array of source type 0 and a
\* struct with two members of source type 1.
BtfAlphabet ==
    { BtfType(BtfInteger(64, 64, FALSE), 0, <<"a">>),
      BtfType(BtfOther, 1, <<>>),
      BtfType(BtfArray(1, 2), 0, <<>>),
      BtfType(BtfArray(0, 2), 0, <<>>),
      BtfType(BtfStruct(<< BtfMember("f", 0, 1), BtfMember("g", 64, 1) >>), 0, <<"b">>) }

BtfLists == UNION {[1..k -> BtfAlphabet] : k \in 1..MaxBtfTypes}

\* add_btf_types on a database that was just created
DbAddBtfTypes ==
    \E btf \in BtfLists :
        /\ dbLast.op = "new"
        /\ DbApply("add_btf_types", NoName, btf, add_btf_types(TheDb, btf))

(***************************************************************************)
(* SpecHelpers: Helpers::from_string on one name, then the member found    *)
(* `as u32`.                                                               *)
(***************************************************************************)
\* the names the chain compares with, and names that no branch compares with
HelperInputs ==
    {FromStringChain[k][1] : k \in DOMAIN FromStringChain}
    \cup {"map_lookup_elem", "bpf_probe_read", "MapUpdateElem", "probe_read ", ""}

HlpIdle == hlpPc = "off" /\ hlpName = "" /\ hlpRes = NoHelper /\ hlpId = 0

InitHelpers ==
    /\ hlpPc = "in"
    /\ hlpName \in HelperInputs
    /\ hlpRes = NoHelper
    /\ hlpId = 0

HelpersFromString ==
    /\ hlpPc = "in"
    /\ hlpRes' = Helpers_from_string(hlpName)
    /\ hlpPc' = "found"
    /\ UNCHANGED <<hlpName, hlpId>>

HelpersAsU32 ==
    /\ hlpPc = "found"
    /\ hlpRes.some
    /\ hlpId' = Helpers_as_u32(hlpRes.val)
    /\ hlpPc' = "id"
    /\ UNCHANGED <<hlpName, hlpRes>>

RECURSIVE emit_call(_, _)
RECURSIVE emit_call_args(_, _, _, _)
RECURSIVE emit_set_register_from_rvalue(_, _, _, _)

\* emit_load_lvalue that loads 64 bits whatever the size of the type
emit_load_lvalue_always_64(e1, reg, lval) ==
    IF lval.prefix = "&" THEN e1
    ELSE IF lval.prefix = "*"
    THEN IF ~Type_is_pointer(e1.ty)
         THEN semantics_bail(Push(e1, loadx(reg, reg, 0, 64)),
                             "Cannot dereference a non-pointer type")
         ELSE PushAll(e1, << loadx(reg, reg, 0, 64), loadx(reg, reg, 0, 64) >>)
    ELSE Push(e1, loadx(reg, reg, 0, 64))

\* emit_set_register_from_lvalue once reg holds the address (e1.ty its type)
emit_load_lvalue(e1, reg, lval) ==
    IF lval.prefix = "&" THEN e1
    ELSE IF Type_get_size(e1.ty) \notin {1, 2, 4, 8}
    THEN semantics_bail(e1, "The variable is too large to be passed in a register")
    ELSE IF lval.prefix = "*"
    THEN IF ~Type_is_pointer(e1.ty)
         THEN semantics_bail(Push(e1, loadx(reg, reg, 0, Type_get_size(e1.ty) * 8)),
                             "Cannot dereference a non-pointer type")
         ELSE PushAll(e1, << loadx(reg, reg, 0, Type_get_size(e1.ty) * 8),
                             loadx(reg, reg, 0, 64) >>)
    ELSE Push(e1, loadx(reg, reg, 0, Type_get_size(e1.ty) * 8))

emit_set_register_from_lvalue(e, reg, lval, load_type) ==
    IF ~HasVariable(e, lval.name) THEN semantics_bail(e, "No variable with name")
    ELSE IF e.vars[lval.name].location.kind = "SpecialImmediate"
    THEN IF lval.derefs # <<>>
         THEN semantics_bail(e, "Can't dereference; it's a capture")
         ELSE Push(e, loadtype(reg, e.vars[lval.name].location.val,
                               IF load_type.some THEN load_type.val ELSE "Void"))
    ELSE AndThen(emit_set_register_to_lvalue_addr(e, reg, lval),
                 LAMBDA e1 : emit_load_lvalue(e1, reg, lval))

emit_set_register_from_rvalue(e, reg, rval, load_type) ==
    CASE rval.kind = "Immediate" ->
            IF load_type.some
            THEN AndThen(parse_immediate(e, "i64", rval.imm),
                         LAMBDA e1 : Push(e1, loadtype(reg, rval.imm, load_type.val)))
            ELSE AndThen(parse_immediate(e, "i32", rval.imm),
                         LAMBDA e1 : Push(e1, mov64(reg, rval.imm)))
      [] rval.kind = "LValue" ->
            emit_set_register_from_lvalue(e, reg, rval.lval, load_type)
      [] OTHER ->
            AndThen(emit_call(e, rval.call),
                    LAMBDA e1 : IF reg # R0 THEN Push(e1, movx64(reg, R0)) ELSE e1)

\* i: the 0-based position of Head(args) in call.args
emit_call_args(e, args, i, arg_types) ==
    IF args = <<>> THEN e
    ELSE IF i >= 5 THEN semantics_bail(e, "Function call exceeds 5 arguments")
    ELSE AndThen(emit_set_register_from_rvalue(e, i + 1, Head(args),
                                               Some(arg_types[i + 1])),
                 LAMBDA e1 : emit_call_args(e1, Tail(args), i + 1, arg_types))

emit_call(e, call_) ==
    IF ~Helpers_from_string(call_.name).some THEN semantics_bail(e, "Unknown function")
    ELSE AndThen(emit_call_args(e, call_.args, 0,
                                get_arg_types(Helpers_from_string(call_.name).val)),
                 LAMBDA e1 : Push(e1, call(Helpers_as_u32(
                                              Helpers_from_string(call_.name).val))))

emit_push_rvalue(e, rval, cast_type, use_offset) ==
    CASE rval.kind = "Immediate" ->
            emit_push_immediate(e, rval.imm, cast_type, use_offset)
      [] rval.kind = "LValue" ->
            emit_push_lvalue(e, rval.lval, cast_type, use_offset)
      [] OTHER ->
            IF cast_type.base_type.kind = "Integer"
            THEN IF cast_type.base_type.used_bits \div 8 # 8
                 THEN semantics_bail(e,
                        "Function return values can only be stored in 64-bit types")
                 ELSE AndThen(emit_call(e, rval.call),
                        LAMBDA e1 :
                          AndThen(emit_push_register(e1, R0, use_offset),
                                  LAMBDA e2 : Ret(e2, e2.off, cast_type)))
            ELSE semantics_bail(e,
                   "Function return values can only be stored in integer types")

\* emit_assign_target that takes the offset of any existing variable,
\* whatever its location
emit_assign_target_any_location(e, assign) ==
    IF HasVariable(e, assign.left.name)
    THEN IF assign.type_name.some
         THEN semantics_bail(e, "Can't re-type after first assignment")
         ELSE get_deref_offset(e, e.vars[assign.left.name].var_type,
                               assign.left.derefs)
    ELSE IF assign.type_name.some
    THEN type_from_decl(e, assign.type_name)
    ELSE Ret(e, 0, TypeDefault)

\* emit_assign: the (cast_type, use_offset) pair; the Ok value holds cast_type
\* in ty and, for an existing variable, the offset of the derefs in off
emit_assign_target(e, assign) ==
    IF HasVariable(e, assign.left.name)
    THEN IF assign.type_name.some
         THEN semantics_bail(e, "Can't re-type after first assignment")
         ELSE IF e.vars[assign.left.name].location.kind = "Stack"
         THEN get_deref_offset(e, e.vars[assign.left.name].var_type,
                               assign.left.derefs)
         ELSE semantics_bail(e, "Variable cannot be re-assigned")
    ELSE IF assign.type_name.some
    THEN type_from_decl(e, assign.type_name)
    ELSE Ret(e, 0, TypeDefault)

\* emit_assign that reserves a new slot and binds the name again on every
\* assignment
emit_assign_fresh_slot(e, assign) ==
    AndThen(emit_assign_target(e, assign),
      LAMBDA e1 :
        AndThen(emit_push_rvalue(e1, assign.right, e1.ty, None),
          LAMBDA e2 :
            [e2 EXCEPT !.vars = MapPut(@, assign.left.name,
                                       VariableInfo(e2.ty, StackLoc(e2.off)))]))

emit_assign(e, assign) ==
    AndThen(emit_assign_target(e, assign),
      LAMBDA e1 :
        AndThen(emit_push_rvalue(e1, assign.right, e1.ty,
                    IF HasVariable(e, assign.left.name)
                    THEN Some(e.vars[assign.left.name].location.val + e1.off)
                    ELSE None),
          LAMBDA e2 :
            IF ~HasVariable(e, assign.left.name)
            THEN [e2 EXCEPT !.vars = MapPut(@, assign.left.name,
                                            VariableInfo(e2.ty, StackLoc(e2.off)))]
            ELSE e2))

\* emit_return with the exit after a returned value left out
emit_return_without_exit(e, ret) ==
    IF ~ret.some THEN PushAll(e, << mov64(R0, 0), exit >>)
    ELSE emit_set_register_from_rvalue(e, R0, ret.val, None)

\* ret: Option<RValue>
emit_return(e, ret) ==
    IF ~ret.some THEN PushAll(e, << mov64(R0, 0), exit >>)
    ELSE AndThen(emit_set_register_from_rvalue(e, R0, ret.val, None),
                 LAMBDA e1 : Push(e1, exit))

\* i: the 0-based position of Head(args) in input.args
RECURSIVE emit_prologue_loop(_, _, _)
emit_prologue_loop(e, args, i) ==
    IF args = <<>> THEN e
    ELSE AndThen(type_from_decl(e, Head(args).type_name),
           LAMBDA e1 :
             AndThen(emit_push_register(e1, i + 1, None),
               LAMBDA e2 :
                 emit_prologue_loop(
                     [e2 EXCEPT !.vars = MapPut(@, Head(args).name,
                                            VariableInfo(e1.ty, StackLoc(e2.off)))],
                     Tail(args), i + 1)))

\* emit_prologue without the check of the number of arguments
emit_prologue_unchecked(e, args) == emit_prologue_loop(e, args, 0)

emit_prologue(e, args) ==
    IF Len(args) > 5 THEN semantics_bail(e, "Function exceeds 5 arguments")
    ELSE emit_prologue_loop(e, args, 0)

\* emit_body: before each expression of a body ...
emit_body_next(e) == [e EXCEPT !.expr_num = @ + 1]

\* ... and after the last one
emit_body_end(e) == [e EXCEPT !.ins = optimize(@)]

JumpOperation(op) ==
    CASE op = "==" -> "IfEqual"
      [] op = "!=" -> "IfNotEqual"
      [] op = ">"  -> "IfGreater"
      [] op = ">=" -> "IfGreaterOrEqual"
      [] op = "<"  -> "IfLessThan"
      [] OTHER     -> "IfLessThanOrEqual"

PushRole(e, i, path, role, ifid) ==
    [e EXCEPT !.ins = Append(@, Retag(i, [path |-> path, role |-> role, ifid |-> ifid]))]

\* emit_if_statement from `self.instructions = optimize(..)` to the push of
\* the placeholder; the Ok value (off) is else_index
emit_if_statement_jumps(e3, cond, ifid) ==
    Ret(PushRole(PushRole(e3, jmp_ifx(R8, JumpOperation(cond.op), R9, 1),
                          e3.path, "jif", ifid),
                 jmp_abs(0), e3.path, "ejmp", ifid),
        Len(e3.ins) + 1, e3.ty)

\* emit_if_statement up to the call of emit_body for the then branch;
\* the Ok value (e.off) is else_index.
emit_if_statement_open(e, cond, ifid) ==
    AndThen(emit_set_register_from_rvalue(e, R8, cond.left, None),
      LAMBDA e1 :
        AndThen(emit_set_register_from_rvalue(e1, R9, cond.right, None),
          LAMBDA e2 :
            emit_if_statement_jumps([e2 EXCEPT !.ins = optimize(@)], cond, ifid)))

\* `(len - index - 1).try_into()?` on usize: a negative difference overflows
\* (a panic, or a wrapped value that does not fit i16); neither build goes on.
JumpOffsetFits(len, index) == len - index - 1 >= 0 /\ FitsI16(len - index - 1)

Patch(e, index, off, path, role, ifid) ==
    [e EXCEPT !.ins[index + 1] =
                  Retag(jmp_abs(off), [path |-> path, role |-> role, ifid |-> ifid])]

\* emit_if_statement from the return of emit_body(then) to the call of
\* emit_body(else) (has_else) or to its end (no else); e.path is the path of
\* the if statement itself.  With an else the Ok value (e.off) is end_index.
emit_if_statement_mid(e, else_index, has_else, ifid) ==
    LET end_index == Len(e.ins)
        e1 == IF has_else THEN PushRole(e, jmp_abs(0), e.path, "endjmp", ifid) ELSE e
    IN IF ~JumpOffsetFits(Len(e1.ins), else_index)
       THEN [e1 EXCEPT !.err = "error converting integer", !.ekind = "IntegerConversion"]
       ELSE Ret(Patch(e1, else_index, Len(e1.ins) - else_index - 1, e.path, "ejmp", ifid),
                end_index, e1.ty)

\* emit_if_statement after emit_body(else)
emit_if_statement_close(e, end_index, ifid) ==
    IF ~JumpOffsetFits(Len(e.ins), end_index)
    THEN [e EXCEPT !.err = "error converting integer", !.ekind = "IntegerConversion"]
    ELSE Patch(e, end_index, Len(e.ins) - end_index - 1, e.path, "endjmp", ifid)

\* compile with the implicit return emitted whatever the last expression is
compile_end_always_returns(e, last_is_return) ==
    emit_return(emit_body_end(e), None)

\* compile after parsing and emit_prologue and the expressions of the body:
\* last_is_return tells whether ast.exprs.last() is a Return.
compile_end(e, last_is_return) ==
    IF ~last_is_return THEN emit_return(emit_body_end(e), None)
    ELSE emit_body_end(e)

(***************************************************************************)
(* Spec: Compiler::create on a fixed database, then compile calls.  The    *)
(* program text of a call is chosen statement by statement: one action per *)
(* expression of a body, and one per point where emit_if_statement and     *)
(* compile continue after a body.                                          *)
(***************************************************************************)
\* The database of the crate's tests (lib.rs 86-114), plus three array
\* types: arr (2 x u64), s7 (7 x u8) and page (PageElems x u64), which
\* fills the frame that four 8-byte parameter slots leave; a pointer type
\* pu64 and a struct holder {ptr: pu64, tag: u8, inner: arr}.
PageElems == (MAX_STACK_SIZE - 4 * 8) \div 8

CompileDb ==
    LET d1 == add_integer(Db(<<>>, EmptyMap), "u64", 8, FALSE).db
        d2 == add_integer(d1, "u8", 1, FALSE).db
        d3 == add_struct(d2, "iovec", << <<"iov_base", Field(0, 0)>>,
                                        <<"iov_len", Field(64, 0)>> >>).db
        d4 == add_array(d3, "arr", 0, 2).db
        d5 == add_array(d4, "s7", 1, 7).db
        d6 == add_array(d5, "page", 0, PageElems).db
        d7 == add_type(d6, "pu64", MkType(BaseInteger(64, 64, FALSE), 1)).db
    IN add_struct(d7, "holder", << <<"ptr", Field(0, 6)>>, <<"tag", Field(64, 1)>>,
                                   <<"inner", Field(72, 3)>> >>).db

DbForCompile ==
    /\ types = CompileDb.types
    /\ name_map = CompileDb.name_map
    /\ dbLast = [op |-> "off", ok |-> TRUE, err |-> "", id |-> 0, n |-> 0,
                    name |-> NoName, btf |-> <<>>, fields |-> <<>>]

LvA     == LValue("", "a", <<>>)
LvX     == LValue("", "x", <<>>)
LvY     == LValue("", "y", <<>>)
LvV     == LValue("", "v", <<>>)
LvPLen  == LValue("", "p", <<FieldAccess("iov_len")>>)
CallUid == FunctionCall("get_current_uid_gid", <<>>)

ParamLists ==
    { <<>>,
      << TypedArgument("a", TypeDecl(FALSE, "u64")),
         TypedArgument("p", TypeDecl(TRUE, "iovec")) >> }

AssignAlphabet ==
    { Assignment(LvX, NoDecl, RImmediate(0)),
      Assignment(LvV, TypeDecl(FALSE, "arr"), RImmediate(0)),
      Assignment(LValue("", "v", <<ArrayIndex(2)>>), NoDecl, RImmediate(5)),
      Assignment(LvX, NoDecl, RLValue(LvA)),
      Assignment(LvY, TypeDecl(FALSE, "u64"), RCall(CallUid)) }

ReturnAlphabet == << None, Some(RLValue(LvA)) >>

CallAlphabet == { CallUid }

CondAlphabet ==
    { Condition(RLValue(LvA), "==", RLValue(LvPLen)),
      Condition(RLValue(LvA), ">", RImmediate(1)) }

\* The lvalues an rvalue names (arguments of calls included)
RECURSIVE RValueLvals(_)
RECURSIVE ArgsLvals(_)
RValueLvals(rval) ==
    CASE rval.kind = "LValue"       -> <<rval.lval>>
      [] rval.kind = "FunctionCall" -> ArgsLvals(rval.call.args)
      [] OTHER                      -> <<>>
ArgsLvals(args) ==
    IF args = <<>> THEN <<>> ELSE RValueLvals(Head(args)) \o ArgsLvals(Tail(args))

CurPath == [k \in 1..Len(frames) |-> frames[k].blk]

EnvNow ==
    [ins |-> instructions, stack |-> stack, vars |-> variables,
     expr_num |-> expr_num, err |-> "", ekind |-> "", path |-> CurPath,
     off |-> 0, ty |-> TypeDefault]

StackVars(vs) == {n \in DOMAIN vs : vs[n].location.kind = "Stack"}

\* An i64 as its halves: the value is hi * 2^32 + lo with 0 <= lo < 2^32
I64(hi, lo) == [hi |-> hi, lo |-> lo]

\* `value as u32`: the low 32 bits
as_u32(value) == value.lo

\* Compiler::capture on the variable table vs
capture(vs, name, value) ==
    MapPut(vs, name, VariableInfo(U64Type, SpecialImmediate(as_u32(value))))

\* A statement as SpecStmt records it: an Assignment as it is, a
\* FunctionCall or the value of a Return in right (has_right tells whether
\* a Return has a value).
Stmt(left, type_name, right, has_right) ==
    [left |-> left, type_name |-> type_name, right |-> right, has_right |-> has_right]

NoStmt == Stmt(NoLValue, NoDecl, RImmediate(0), FALSE)

\* The fields of the Compiler before a statement
Pre(st, is, vs) == [stack |-> st, ins |-> is, vars |-> vs]

HistNew ==
    [n |-> 0, compiles |-> 0, ifs |-> 0, lastTop |-> "", last |-> "",
     lvals |-> <<>>, err |-> "", ekind |-> "",
     start |-> [ins |-> 0, stack |-> 0, expr_num |-> 1, stackVars |-> {}],
     closed |-> {}, stmt |-> NoStmt, pre |-> Pre(0, <<>>, EmptyMap),
     params |-> <<>>, cap |-> I64(0, 0), text |-> <<>>]

CcIdle ==
    /\ variables = EmptyMap /\ instructions = <<>> /\ stack = 0 /\ expr_num = 1
    /\ pc = "off" /\ frames = <<>> /\ hist = HistNew

\* Compiler::create
InitCompiler ==
    /\ variables = EmptyMap
    /\ instructions = <<>>
    /\ stack = 0
    /\ expr_num = 1
    /\ pc = "idle"
    /\ frames = <<>>
    /\ hist = HistNew

\* The fields of the Compiler after a step that left e; the call goes on at
\* okPc when e is Ok and has returned an Err otherwise.
Commit(e, okPc) ==
    /\ instructions' = e.ins
    /\ stack' = e.stack
    /\ variables' = e.vars
    /\ expr_num' = e.expr_num
    /\ pc' = IF Ok(e) THEN okPc ELSE "failed"

\* the statement just compiled is one more statement of the block it is in
Counted(fs) ==
    IF fs = <<>> THEN fs ELSE [fs EXCEPT ![Len(fs)].nstmts = @ + 1]

Noted(h, kind, lvals, e) ==
    [h EXCEPT !.n = @ + 1, !.last = kind, !.lvals = lvals,
              !.err = e.err, !.ekind = e.ekind,
              !.lastTop = IF frames = <<>> THEN kind ELSE @]

\* compile: ScriptDef::parse succeeded, then emit_prologue
CompileStart ==
    \E args \in ParamLists :
        \E e \in {emit_prologue(EnvNow, args)} :
        /\ pc \in {"idle", "done"}
        /\ hist.compiles < MaxCompiles
        /\ Commit(e, "body")
        /\ frames' = <<>>
        /\ hist' = [hist EXCEPT !.compiles = @ + 1, !.lastTop = "",
                                !.last = "InputLine", !.lvals = <<>>,
                                !.err = e.err, !.ekind = e.ekind,
                                !.closed = {}, !.params = args,
                                !.start = [ins |-> Len(instructions),
                                           stack |-> stack,
                                           expr_num |-> expr_num,
                                           stackVars |-> StackVars(variables)]]
        /\ UNCHANGED <<optVars, dbVars, hlpVars>>

CanEmit == pc = "body" /\ hist.n < MaxStmts

\* emit_body: Expression::Assignment
EmitAssign ==
    \E assign \in AssignAlphabet :
        \E e \in {emit_assign(emit_body_next(EnvNow), assign)} :
        /\ CanEmit
        /\ Commit(e, "body")
        /\ frames' = Counted(frames)
        /\ hist' = Noted(hist, "Assignment",
                         <<assign.left>> \o RValueLvals(assign.right), e)
        /\ UNCHANGED <<optVars, dbVars, hlpVars>>

\* emit_body: Expression::FunctionCall
EmitCall ==
    \E c \in CallAlphabet :
        \E e \in {emit_call(emit_body_next(EnvNow), c)} :
        /\ CanEmit
        /\ Commit(e, "body")
        /\ frames' = Counted(frames)
        /\ hist' = Noted(hist, "FunctionCall", ArgsLvals(c.args), e)
        /\ UNCHANGED <<optVars, dbVars, hlpVars>>

\* emit_body: Expression::Return
EmitReturn ==
    \E k \in DOMAIN ReturnAlphabet :
        \E e \in {emit_return(emit_body_next(EnvNow), ReturnAlphabet[k])} :
        /\ CanEmit
        /\ Commit(e, "body")
        /\ frames' = Counted(frames)
        /\ hist' = Noted(hist, "Return",
                         IF ReturnAlphabet[k].some
                         THEN RValueLvals(ReturnAlphabet[k].val) ELSE <<>>, e)
        /\ UNCHANGED <<optVars, dbVars, hlpVars>>

\* emit_body: Expression::IfStatement, up to the then branch
IfOpen ==
    \E cond \in CondAlphabet :
        \E ifid \in {hist.ifs + 1} :
        \E e \in {emit_if_statement_open(emit_body_next(EnvNow), cond, ifid)} :
        /\ CanEmit
        /\ Len(frames) < MaxDepth
        /\ Commit(e, "body")
        /\ frames' = Append(Counted(frames),
                            [id |-> ifid, blk |-> 2 * ifid, phase |-> "then",
                             else_index |-> e.off, end_index |-> 0, nstmts |-> 0])
        /\ hist' = [Noted(hist, "IfStatement",
                          RValueLvals(cond.left) \o RValueLvals(cond.right), e)
                       EXCEPT !.ifs = ifid]
        /\ UNCHANGED <<optVars, dbVars, hlpVars>>

Outer(fs) == SubSeq(fs, 1, Len(fs) - 1)
OuterPath == [k \in 1..(Len(frames) - 1) |-> frames[k].blk]

\* the then branch ends and a non-empty else branch begins
IfElse ==
    /\ pc = "body" /\ frames # <<>> /\ hist.n < MaxStmts
    /\ frames[Len(frames)].phase = "then"
    /\ \E f \in {frames[Len(frames)]} :
       \E e \in {emit_if_statement_mid(
                    [emit_body_end(EnvNow) EXCEPT !.path = OuterPath],
                    f.else_index, TRUE, f.id)} :
          /\ Commit(e, "body")
          /\ frames' = [frames EXCEPT ![Len(frames)] =
                            [f EXCEPT !.phase = "else", !.blk = 2 * f.id + 1,
                                      !.end_index = e.off, !.nstmts = 0]]
          /\ hist' = [hist EXCEPT !.err = e.err, !.ekind = e.ekind]
    /\ UNCHANGED <<optVars, dbVars, hlpVars>>

\* the if statement ends: after the then branch when there is no else,
\* after the else branch otherwise
IfClose ==
    /\ pc = "body" /\ frames # <<>>
    /\ \E f \in {frames[Len(frames)]} :
       \E e0 \in {[emit_body_end(EnvNow) EXCEPT !.path = OuterPath]} :
       \E e \in {IF f.phase = "then"
                 THEN emit_if_statement_mid(e0, f.else_index, FALSE, f.id)
                 ELSE emit_if_statement_close(e0, f.end_index, f.id)} :
          /\ f.phase = "else" => f.nstmts > 0
          /\ Commit(e, "body")
          /\ frames' = Outer(frames)
          /\ hist' = [hist EXCEPT !.err = e.err, !.ekind = e.ekind,
                                  !.closed = @ \cup {[id |-> f.id,
                                                      has_else |-> f.phase = "else"]}]
    /\ UNCHANGED <<optVars, dbVars, hlpVars>>

\* compile after the last expression of the program
CompileEnd ==
    /\ pc = "body" /\ frames = <<>>
    /\ \E e \in {compile_end(EnvNow, hist.lastTop = "Return")} :
          /\ Commit(e, "done")
          /\ hist' = [hist EXCEPT !.err = e.err, !.ekind = e.ekind]
    /\ UNCHANGED <<frames, optVars, dbVars, hlpVars>>

(***************************************************************************)
(* SpecStmt: one compile of a program without if statements, on a Compiler *)
(* that captured one value, with statements drawn from larger alphabets;   *)
(* hist keeps the statement just compiled and the fields before it.        *)
(***************************************************************************)
\* Compiler::capture("m", 7)
Capture ==
    /\ pc = "idle"
    /\ "m" \notin DOMAIN variables
    /\ variables' = capture(variables, "m", I64(0, 7))
    /\ hist' = [hist EXCEPT !.cap = I64(0, 7)]
    /\ UNCHANGED <<instructions, stack, expr_num, pc, frames>>
    /\ UNCHANGED <<optVars, dbVars, hlpVars>>

StmtParams ==
    << TypedArgument("a", TypeDecl(FALSE, "u64")),
       TypedArgument("p", TypeDecl(TRUE, "iovec")),
       TypedArgument("b", TypeDecl(FALSE, "u8")),
       TypedArgument("g", TypeDecl(FALSE, "page")) >>

LvB    == LValue("", "b", <<>>)
LvP    == LValue("", "p", <<>>)
LvS    == LValue("", "s", <<>>)
LvT    == LValue("", "t", <<>>)
LvM    == LValue("", "m", <<>>)
LvG    == LValue("", "g", <<>>)
LvSLen == LValue("", "s", <<FieldAccess("iov_len")>>)
LvV1   == LValue("", "v", <<ArrayIndex(1)>>)

CallProbe(args) == FunctionCall("probe_read", args)

StmtCalls ==
    { CallUid,
      CallProbe(<< RLValue(LvA), RImmediate(1) >>),
      FunctionCall("map_update_elem",
                   << RLValue(LvM), RLValue(LValue("&", "a", <<>>)), RLValue(LvB) >>),
      CallProbe(<< RCall(CallUid), RLValue(LvA) >>),
      CallProbe(<< RLValue(LvA), RCall(CallProbe(<< RImmediate(2) >>)) >>),
      CallProbe(<< RImmediate(1), RImmediate(2), RImmediate(3), RImmediate(4),
                   RImmediate(5), RImmediate(6) >>),
      FunctionCall("no_such_helper", << RImmediate(1) >>) }

StmtAssigns ==
    { \* new variables
      Assignment(LvX, NoDecl, RImmediate(0)),
      Assignment(LvS, TypeDecl(FALSE, "iovec"), RImmediate(1)),
      Assignment(LvV, TypeDecl(FALSE, "arr"), RImmediate(0)),
      Assignment(LvT, TypeDecl(FALSE, "s7"), RImmediate(3)),
      Assignment(LvT, TypeDecl(FALSE, "s7"), RImmediate(200)),
      Assignment(LValue("", "z", <<>>), NoDecl, RLValue(LvG)),
      Assignment(LValue("", "w", <<>>), NoDecl, RLValue(LvG)),
      Assignment(LvX, NoDecl, RLValue(LvA)),
      Assignment(LvX, TypeDecl(FALSE, "u8"), RLValue(LvA)),
      Assignment(LvX, TypeDecl(FALSE, "arr"), RLValue(LvS)),
      Assignment(LvX, NoDecl, RLValue(LvPLen)),
      Assignment(LvX, NoDecl, RLValue(LValue("&", "s", <<>>))),
      Assignment(LvY, TypeDecl(FALSE, "u64"), RCall(CallUid)),
      Assignment(LvY, NoDecl, RCall(CallUid)),
      Assignment(LvY, TypeDecl(FALSE, "u8"), RCall(CallUid)),
      Assignment(LvY, TypeDecl(FALSE, "iovec"), RCall(CallUid)),
      \* variables that exist
      Assignment(LvA, NoDecl, RImmediate(7)),
      Assignment(LvA, TypeDecl(FALSE, "u64"), RImmediate(7)),
      Assignment(LvA, NoDecl, RLValue(LvX)),
      Assignment(LvA, NoDecl, RLValue(LValue("&", "b", <<>>))),
      Assignment(LvA, NoDecl, RCall(CallUid)),
      Assignment(LvB, NoDecl, RCall(CallUid)),
      Assignment(LvS, NoDecl, RImmediate(0)),
      Assignment(LvSLen, NoDecl, RLValue(LvA)),
      Assignment(LvV1, NoDecl, RImmediate(5)) }

StmtReturns ==
    { RLValue(LvA), RLValue(LvB), RLValue(LvM), RLValue(LvS), RLValue(LvPLen),
      RLValue(LValue("&", "a", <<>>)), RLValue(LValue("*", "p", <<>>)),
      RLValue(LValue("*", "a", <<>>)) }

NotedStmt(h, kind, lvals, stmt, e) ==
    [Noted(h, kind, lvals, e) EXCEPT !.stmt = stmt,
                                     !.pre = Pre(stack, instructions, variables)]

\* compile: ScriptDef::parse succeeded, then emit_prologue
StmtStart ==
    \E e \in {emit_prologue(EnvNow, StmtParams)} :
        /\ pc = "idle"
        /\ "m" \in DOMAIN variables
        /\ Commit(e, "body")
        /\ frames' = <<>>
        /\ hist' = [hist EXCEPT !.compiles = @ + 1, !.last = "InputLine",
                                !.err = e.err, !.ekind = e.ekind,
                                !.params = StmtParams]
        /\ UNCHANGED <<optVars, dbVars, hlpVars>>

\* emit_body: Expression::Assignment
StmtAssign ==
    \E assign \in StmtAssigns :
        \E e \in {emit_assign(emit_body_next(EnvNow), assign)} :
        /\ CanEmit
        /\ Commit(e, "body")
        /\ hist' = NotedStmt(hist, "Assignment",
                             <<assign.left>> \o RValueLvals(assign.right),
                             Stmt(assign.left, assign.type_name, assign.right, TRUE), e)
        /\ UNCHANGED <<frames, optVars, dbVars, hlpVars>>

\* emit_body: Expression::FunctionCall
StmtCall ==
    \E c \in StmtCalls :
        \E e \in {emit_call(emit_body_next(EnvNow), c)} :
        /\ CanEmit
        /\ Commit(e, "body")
        /\ hist' = NotedStmt(hist, "FunctionCall", ArgsLvals(c.args),
                             Stmt(NoLValue, NoDecl, RCall(c), TRUE), e)
        /\ UNCHANGED <<frames, optVars, dbVars, hlpVars>>

\* emit_body: Expression::Return with a value
StmtReturn ==
    \E rval \in StmtReturns :
        \E e \in {emit_return(emit_body_next(EnvNow), Some(rval))} :
        /\ CanEmit
        /\ Commit(e, "body")
        /\ hist' = NotedStmt(hist, "Return", RValueLvals(rval),
                             Stmt(NoLValue, NoDecl, rval, TRUE), e)
        /\ UNCHANGED <<frames, optVars, dbVars, hlpVars>>

(***************************************************************************)
(* SpecPrologue: one compile, on a Compiler just created, of a program     *)
(* with an empty body whose input line is drawn from a larger alphabet:    *)
(* up to MaxParams parameters, names that repeat, a type without a name in *)
(* the database.                                                           *)
(***************************************************************************)
PrologueArgs ==
    { TypedArgument("a", TypeDecl(FALSE, "u64")),
      TypedArgument("p", TypeDecl(TRUE, "iovec")),
      TypedArgument("a", TypeDecl(FALSE, "page")),
      TypedArgument("d", TypeDecl(FALSE, "nosuch")) }

PrologueLists == UNION {[1..k -> PrologueArgs] : k \in 0..MaxParams}

\* compile: ScriptDef::parse succeeded, then emit_prologue
PrologueStart ==
    /\ pc = "idle"
    /\ \E args \in PrologueLists :
          \E e \in {emit_prologue(EnvNow, args)} :
             /\ Commit(e, "body")
             /\ frames' = <<>>
             /\ hist' = [hist EXCEPT !.compiles = @ + 1, !.last = "InputLine",
                                     !.err = e.err, !.ekind = e.ekind,
                                     !.params = args]
    /\ UNCHANGED <<optVars, dbVars, hlpVars>>

(***************************************************************************)
(* SpecCapture: capture("m", v) on a Compiler just created, then one       *)
(* compile whose statements name the captured variable.                    *)
(***************************************************************************)
\* 7, 0xbeef, 2^32 + 7 and -2^32 + 7
CaptureValues == { I64(0, 7), I64(0, 48879), I64(1, 7), I64(-1, 7) }

CaptureAny ==
    /\ pc = "idle"
    /\ "m" \notin DOMAIN variables
    /\ \E value \in CaptureValues :
          /\ variables' = capture(variables, "m", value)
          /\ hist' = [hist EXCEPT !.cap = value]
    /\ UNCHANGED <<instructions, stack, expr_num, pc, frames>>
    /\ UNCHANGED <<optVars, dbVars, hlpVars>>

LvMLen == LValue("", "m", <<FieldAccess("iov_len")>>)
LvM0   == LValue("", "m", <<ArrayIndex(0)>>)

CapAssigns ==
    { Assignment(LvM, NoDecl, RImmediate(1)),
      Assignment(LvM, TypeDecl(FALSE, "u64"), RImmediate(1)),
      Assignment(LvM, NoDecl, RLValue(LvA)),
      Assignment(LvM, NoDecl, RCall(CallUid)),
      Assignment(LvMLen, NoDecl, RImmediate(1)),
      Assignment(LvM0, NoDecl, RImmediate(1)),
      Assignment(LvX, NoDecl, RLValue(LvM)),
      Assignment(LvX, TypeDecl(FALSE, "u64"), RLValue(LvM)),
      Assignment(LvX, NoDecl, RLValue(LValue("&", "m", <<>>))),
      Assignment(LvX, NoDecl, RLValue(LvMLen)),
      Assignment(LvA, NoDecl, RLValue(LvM)),
      Assignment(LvX, TypeDecl(FALSE, "u64"), RImmediate(5)) }

CapCalls ==
    { CallProbe(<< RLValue(LvM) >>),
      CallProbe(<< RLValue(LvA), RLValue(LvM) >>),
      CallProbe(<< RLValue(LvMLen) >>),
      FunctionCall("map_update_elem",
                   << RLValue(LvM), RLValue(LValue("&", "a", <<>>)), RLValue(LvB) >>),
      FunctionCall("map_delete_elem", << RLValue(LvM), RLValue(LvM) >>) }

CapReturns ==
    { RLValue(LvM), RLValue(LvMLen), RLValue(LvM0),
      RLValue(LValue("&", "m", <<>>)), RLValue(LValue("*", "m", <<>>)) }

\* emit_body: Expression::Assignment
CapAssign ==
    /\ CanEmit
    /\ \E assign \in CapAssigns :
          \E e \in {emit_assign(emit_body_next(EnvNow), assign)} :
             /\ Commit(e, "body")
             /\ hist' = NotedStmt(hist, "Assignment",
                                  <<assign.left>> \o RValueLvals(assign.right),
                                  Stmt(assign.left, assign.type_name, assign.right, TRUE),
                                  e)
    /\ UNCHANGED <<frames, optVars, dbVars, hlpVars>>

\* emit_body: Expression::FunctionCall
CapCall ==
    /\ CanEmit
    /\ \E c \in CapCalls :
          \E e \in {emit_call(emit_body_next(EnvNow), c)} :
             /\ Commit(e, "body")
             /\ hist' = NotedStmt(hist, "FunctionCall", ArgsLvals(c.args),
                                  Stmt(NoLValue, NoDecl, RCall(c), TRUE), e)
    /\ UNCHANGED <<frames, optVars, dbVars, hlpVars>>

\* emit_body: Expression::Return with a value
CapReturn ==
    /\ CanEmit
    /\ \E rval \in CapReturns :
          \E e \in {emit_return(emit_body_next(EnvNow), Some(rval))} :
             /\ Commit(e, "body")
             /\ hist' = NotedStmt(hist, "Return", RValueLvals(rval),
                                  Stmt(NoLValue, NoDecl, rval, TRUE), e)
    /\ UNCHANGED <<frames, optVars, dbVars, hlpVars>>

(***************************************************************************)
(* SpecDeref: one compile whose assignments have deref chains on the left: *)
(* through fields and elements, through a pointer parameter and through a  *)
(* field of pointer type.                                                  *)
(***************************************************************************)
LvH(derefs) == LValue("", "h", derefs)

DerefAssigns ==
    { Assignment(LvH(<<>>), TypeDecl(FALSE, "holder"), RImmediate(0)),
      Assignment(LvV, TypeDecl(FALSE, "arr"), RImmediate(0)),
      Assignment(LvH(<<FieldAccess("tag")>>), NoDecl, RImmediate(5)),
      Assignment(LvH(<<FieldAccess("tag")>>), NoDecl, RLValue(LvB)),
      Assignment(LvH(<<FieldAccess("inner")>>), NoDecl, RImmediate(0)),
      Assignment(LvH(<<FieldAccess("inner"), ArrayIndex(1)>>), NoDecl, RImmediate(5)),
      Assignment(LvH(<<FieldAccess("inner"), ArrayIndex(1)>>), NoDecl, RCall(CallUid)),
      Assignment(LvH(<<FieldAccess("ptr")>>), NoDecl, RImmediate(5)),
      Assignment(LvH(<<FieldAccess("ptr"), ArrayIndex(0)>>), NoDecl, RImmediate(5)),
      Assignment(LvH(<<FieldAccess("ptr"), FieldAccess("tag")>>), NoDecl, RImmediate(5)),
      Assignment(LvH(<<FieldAccess("nofield")>>), NoDecl, RImmediate(5)),
      Assignment(LvH(<<ArrayIndex(0)>>), NoDecl, RImmediate(5)),
      Assignment(LvV1, NoDecl, RImmediate(5)),
      Assignment(LvV1, NoDecl, RLValue(LvA)),
      Assignment(LvPLen, NoDecl, RImmediate(1)),
      Assignment(LValue("", "p", <<ArrayIndex(0)>>), NoDecl, RLValue(LvA)),
      Assignment(LValue("", "a", <<FieldAccess("iov_len")>>), NoDecl, RImmediate(1)) }

\* emit_body: Expression::Assignment
DerefAssign ==
    /\ CanEmit
    /\ \E assign \in DerefAssigns :
          \E e \in {emit_assign(emit_body_next(EnvNow), assign)} :
             /\ Commit(e, "body")
             /\ hist' = NotedStmt(hist, "Assignment",
                                  <<assign.left>> \o RValueLvals(assign.right),
                                  Stmt(assign.left, assign.type_name, assign.right, TRUE),
                                  e)
    /\ UNCHANGED <<frames, optVars, dbVars, hlpVars>>

(***************************************************************************)
(* ScriptDef::parse (the peginate! grammar, script.rs 13-66).  The text of *)
(* a script is a sequence of tokens: an identifier, a digit string or one  *)
(* punctuation character.  The white space the generated parser skips      *)
(* between tokens is left out, the characters of a two-character literal   *)
(* are adjacent tokens, and no two digit strings are adjacent.  A rule     *)
(* takes a position and yields ok, the value and the position after the    *)
(* match.  A choice takes its first alternative that matches, and a rule   *)
(* that has matched is not entered again when what follows it fails.       *)
(***************************************************************************)
Id(s)  == [k |-> "id", s |-> s, n |-> 0]
Num(n) == [k |-> "num", s |-> ToString(n), n |-> n]
Sym(s) == [k |-> "sym", s |-> s, n |-> 0]
Eof    == [k |-> "eof", s |-> "", n |-> 0]

Matched(val, pos) == [ok |-> TRUE, val |-> val, pos |-> pos]
NoMatch           == [ok |-> FALSE, val |-> 0, pos |-> 0]

Then(r, K(_)) == IF r.ok THEN K(r) ELSE NoMatch

At(ts, pos) == IF pos <= Len(ts) THEN ts[pos] ELSE Eof

\* a literal of the grammar: a keyword or one punctuation character
Lit(ts, pos, s) ==
    IF At(ts, pos).k \in {"id", "sym"} /\ At(ts, pos).s = s
    THEN Matched(s, pos + 1) ELSE NoMatch

\* a two-character literal, named lit
Lit2(ts, pos, c1, c2, lit) ==
    IF Lit(ts, pos, c1).ok /\ Lit(ts, pos + 1, c2).ok
    THEN Matched(lit, pos + 2) ELSE NoMatch

\* Ident = {'a'..'z' | 'A'..'Z' | '_' | '0'..'9'}+
parse_Ident(ts, pos) ==
    IF At(ts, pos).k \in {"id", "num"}
    THEN Matched(At(ts, pos).s, pos + 1) ELSE NoMatch

\* Immediate = {'0'..'9'}+
parse_Immediate(ts, pos) ==
    IF At(ts, pos).k = "num" THEN Matched(At(ts, pos).n, pos + 1) ELSE NoMatch

\* TypeDecl = [is_ref:ReferencePrefix] name:Ident
parse_TypeDecl(ts, pos) ==
    Bind(Lit(ts, pos, "&"), LAMBDA ref :
      Then(parse_Ident(ts, IF ref.ok THEN ref.pos ELSE pos),
           LAMBDA n : Matched(TypeDecl(ref.ok, n.val), n.pos)))

\* TypedArgument = name:Ident ':' type_name:TypeDecl
parse_TypedArgument(ts, pos) ==
    Then(parse_Ident(ts, pos), LAMBDA n :
      Then(Lit(ts, n.pos, ":"), LAMBDA c :
        Then(parse_TypeDecl(ts, c.pos), LAMBDA t :
          Matched(TypedArgument(n.val, t.val), t.pos))))

\* {',' args:TypedArgument}
RECURSIVE parse_more_TypedArguments(_, _, _)
parse_more_TypedArguments(ts, pos, args) ==
    Bind(Then(Lit(ts, pos, ","), LAMBDA c : parse_TypedArgument(ts, c.pos)),
         LAMBDA a :
           IF a.ok THEN parse_more_TypedArguments(ts, a.pos, Append(args, a.val))
           ELSE Matched(args, pos))

\* InputLine = 'fn' '(' [args:TypedArgument {',' args:TypedArgument}] ')'
parse_InputLine(ts, pos) ==
    Then(Lit(ts, pos, "fn"), LAMBDA f :
      Then(Lit(ts, f.pos, "("), LAMBDA o :
        Bind(parse_TypedArgument(ts, o.pos), LAMBDA first :
          Bind(IF first.ok
               THEN parse_more_TypedArguments(ts, first.pos, <<first.val>>)
               ELSE Matched(<<>>, o.pos), LAMBDA args :
            Then(Lit(ts, args.pos, ")"), LAMBDA c : Matched(args.val, c.pos))))))

\* DeReference = @:FieldAccess | @:ArrayIndex
parse_DeReference(ts, pos) ==
    Bind(Then(Lit(ts, pos, "."), LAMBDA d :
           Then(parse_Ident(ts, d.pos), LAMBDA n :
             Matched(FieldAccess(n.val), n.pos))), LAMBDA f :
      IF f.ok THEN f
      ELSE Then(Lit(ts, pos, "["), LAMBDA o :
             Then(parse_Immediate(ts, o.pos), LAMBDA i :
               Then(Lit(ts, i.pos, "]"), LAMBDA c :
                 Matched(ArrayIndex(i.val), c.pos)))))

\* {derefs:DeReference}
RECURSIVE parse_DeReferences(_, _, _)
parse_DeReferences(ts, pos, derefs) ==
    Bind(parse_DeReference(ts, pos), LAMBDA d :
      IF d.ok THEN parse_DeReferences(ts, d.pos, Append(derefs, d.val))
      ELSE Matched(derefs, pos))

\* Prefix = @:ReferencePrefix | @:DeReferencePrefix
parse_Prefix(ts, pos) ==
    IF Lit(ts, pos, "&").ok THEN Lit(ts, pos, "&") ELSE Lit(ts, pos, "*")

\* LValue = [prefix:Prefix] name:Ident {derefs:DeReference}
parse_LValue(ts, pos) ==
    Bind(parse_Prefix(ts, pos), LAMBDA p :
      Then(parse_Ident(ts, IF p.ok THEN p.pos ELSE pos), LAMBDA n :
        Then(parse_DeReferences(ts, n.pos, <<>>), LAMBDA d :
          Matched(LValue(IF p.ok THEN p.val ELSE "", n.val, d.val), d.pos))))

RECURSIVE parse_RValue(_, _)
RECURSIVE parse_more_RValues(_, _, _)
RECURSIVE parse_FunctionCall(_, _)

\* {',' args:RValue}
parse_more_RValues(ts, pos, args) ==
    Bind(Then(Lit(ts, pos, ","), LAMBDA c : parse_RValue(ts, c.pos)),
         LAMBDA a :
           IF a.ok THEN parse_more_RValues(ts, a.pos, Append(args, a.val))
           ELSE Matched(args, pos))

\* FunctionCall = name:Ident '(' [args:RValue {',' args:RValue}] ')'
parse_FunctionCall(ts, pos) ==
    Then(parse_Ident(ts, pos), LAMBDA n :
      Then(Lit(ts, n.pos, "("), LAMBDA o :
        Bind(parse_RValue(ts, o.pos), LAMBDA first :
          Bind(IF first.ok
               THEN parse_more_RValues(ts, first.pos, <<first.val>>)
               ELSE Matched(<<>>, o.pos), LAMBDA args :
            Then(Lit(ts, args.pos, ")"), LAMBDA c :
              Matched(FunctionCall(n.val, args.val), c.pos))))))

\* RValue = @:FunctionCall | @:Immediate | @:LValue
parse_RValue(ts, pos) ==
    Bind(parse_FunctionCall(ts, pos), LAMBDA c :
      IF c.ok THEN Matched(RCall(c.val), c.pos)
      ELSE Bind(parse_Immediate(ts, pos), LAMBDA i :
             IF i.ok THEN Matched(RImmediate(i.val), i.pos)
             ELSE Then(parse_LValue(ts, pos),
                       LAMBDA l : Matched(RLValue(l.val), l.pos))))

\* Comparator = @:Equals | @:NotEquals | @:LessThan | @:GreaterThan
\*            | @:LessOrEqual | @:GreaterOrEqual
parse_Comparator(ts, pos) ==
    IF Lit2(ts, pos, "=", "=", "==").ok THEN Lit2(ts, pos, "=", "=", "==")
    ELSE IF Lit2(ts, pos, "!", "=", "!=").ok THEN Lit2(ts, pos, "!", "=", "!=")
    ELSE IF Lit(ts, pos, "<").ok THEN Lit(ts, pos, "<")
    ELSE IF Lit(ts, pos, ">").ok THEN Lit(ts, pos, ">")
    ELSE IF Lit2(ts, pos, "<", "=", "<=").ok THEN Lit2(ts, pos, "<", "=", "<=")
    ELSE Lit2(ts, pos, ">", "=", ">=")

\* Condition = left:RValue WhiteSpace op:Comparator WhiteSpace right:RValue
\* (WhiteSpace matches the blanks between the tokens, or nothing)
parse_Condition(ts, pos) ==
    Then(parse_RValue(ts, pos), LAMBDA l :
      Then(parse_Comparator(ts, l.pos), LAMBDA op :
        Then(parse_RValue(ts, op.pos), LAMBDA r :
          Matched(Condition(l.val, op.val, r.val), r.pos))))

\* Assignment = left:LValue [':' type_name:TypeDecl] '=' right:RValue
parse_Assignment(ts, pos) ==
    Then(parse_LValue(ts, pos), LAMBDA l :
      Bind(Then(Lit(ts, l.pos, ":"), LAMBDA c : parse_TypeDecl(ts, c.pos)),
           LAMBDA t :
             Then(Lit(ts, IF t.ok THEN t.pos ELSE l.pos, "="), LAMBDA q :
               Then(parse_RValue(ts, q.pos), LAMBDA r :
                 Matched(Assignment(l.val, IF t.ok THEN t.val ELSE NoDecl, r.val),
                         r.pos)))))

\* Return = 'return' [value:RValue]
parse_Return(ts, pos) ==
    Then(Lit(ts, pos, "return"), LAMBDA k :
      Bind(parse_RValue(ts, k.pos), LAMBDA v :
        IF v.ok THEN Matched(Some(v.val), v.pos) ELSE Matched(None, k.pos)))

Expression(kind, val) == [kind |-> kind, val |-> val]
IfStatement(cond, exprs, else_exprs) ==
    [cond |-> cond, exprs |-> exprs, else_exprs |-> else_exprs]

RECURSIVE parse_Expression(_, _)
RECURSIVE parse_Expressions(_, _, _)
RECURSIVE parse_IfStatement(_, _)

\* {exprs:Expression}, and {NewLine exprs:Expression} where NewLine matches
\* the line ends between the tokens, or nothing
parse_Expressions(ts, pos, exprs) ==
    Bind(parse_Expression(ts, pos), LAMBDA x :
      IF x.ok THEN parse_Expressions(ts, x.pos, Append(exprs, x.val))
      ELSE Matched(exprs, pos))

\* IfStatement = 'if' cond:Condition '{' {exprs:Expression} '}'
\*               ['else' '{' {else_exprs:Expression} '}']
parse_IfStatement(ts, pos) ==
    Then(Lit(ts, pos, "if"), LAMBDA k :
      Then(parse_Condition(ts, k.pos), LAMBDA cond :
        Then(Lit(ts, cond.pos, "{"), LAMBDA o :
          Then(parse_Expressions(ts, o.pos, <<>>), LAMBDA body :
            Then(Lit(ts, body.pos, "}"), LAMBDA c :
              Bind(Then(Lit(ts, c.pos, "else"), LAMBDA el :
                     Then(Lit(ts, el.pos, "{"), LAMBDA eo :
                       Then(parse_Expressions(ts, eo.pos, <<>>), LAMBDA eb :
                         Then(Lit(ts, eb.pos, "}"), LAMBDA ec :
                           Matched(eb.val, ec.pos))))), LAMBDA other :
                IF other.ok
                THEN Matched(IfStatement(cond.val, body.val, other.val), other.pos)
                ELSE Matched(IfStatement(cond.val, body.val, <<>>), c.pos)))))))

\* Expression = @:Assignment | @:FunctionCall | @:Return | @:IfStatement
parse_Expression(ts, pos) ==
    Bind(parse_Assignment(ts, pos), LAMBDA a :
      IF a.ok THEN Matched(Expression("Assignment", a.val), a.pos)
      ELSE Bind(parse_FunctionCall(ts, pos), LAMBDA c :
        IF c.ok THEN Matched(Expression("FunctionCall", c.val), c.pos)
        ELSE Bind(parse_Return(ts, pos), LAMBDA r :
          IF r.ok THEN Matched(Expression("Return", r.val), r.pos)
          ELSE Then(parse_IfStatement(ts, pos), LAMBDA i :
                 Matched(Expression("IfStatement", i.val), i.pos)))))

\* ScriptDef = input:InputLine {NewLine exprs:Expression}$
ScriptDef_parse(ts) ==
    Then(parse_InputLine(ts, 1), LAMBDA i :
      Then(parse_Expressions(ts, i.pos, <<>>), LAMBDA b :
        IF b.pos = Len(ts) + 1
        THEN Matched([input |-> i.val, exprs |-> b.val], b.pos)
        ELSE NoMatch))

(***************************************************************************)
(* compile as one step: parse, prologue, body, implicit return.            *)
(***************************************************************************)
RECURSIVE emit_body_loop(_, _, _)
RECURSIVE emit_body(_, _)
RECURSIVE emit_if_statement(_, _)

\* emit_if_statement; the tag of its jumps is the number of the expression
emit_if_statement(e, if_statement) ==
    AndThen(emit_if_statement_open(e, if_statement.cond, e.expr_num), LAMBDA e1 :
      AndThen(emit_body(e1, if_statement.exprs), LAMBDA e2 :
        AndThen(emit_if_statement_mid(e2, e1.off, Len(if_statement.else_exprs) > 0,
                                      e.expr_num), LAMBDA e3 :
          IF Len(if_statement.else_exprs) = 0 THEN e3
          ELSE AndThen(emit_body(e3, if_statement.else_exprs), LAMBDA e4 :
                 emit_if_statement_close(e4, e3.off, e.expr_num)))))

\* emit_body: the match on one expression
emit_expression(e, expr) ==
    CASE expr.kind = "Assignment"   -> emit_assign(e, expr.val)
      [] expr.kind = "FunctionCall" -> emit_call(e, expr.val)
      [] expr.kind = "IfStatement"  -> emit_if_statement(e, expr.val)
      [] expr.kind = "Return"       -> emit_return(e, expr.val)

emit_body_loop(e, exprs, i) ==
    IF i > Len(exprs) THEN e
    ELSE AndThen(emit_expression(emit_body_next(e), exprs[i]),
                 LAMBDA e1 : emit_body_loop(e1, exprs, i + 1))

emit_body(e, exprs) ==
    AndThen(emit_body_loop(e, exprs, 1), LAMBDA e1 : emit_body_end(e1))

LastIsReturn(exprs) == Len(exprs) > 0 /\ exprs[Len(exprs)].kind = "Return"

\* compile after a successful parse
compile_ast(e, ast) ==
    AndThen(emit_prologue(e, ast.input), LAMBDA e1 :
      AndThen(emit_body(e1, ast.exprs), LAMBDA e2 :
        IF ~LastIsReturn(ast.exprs) THEN emit_return(e2, None) ELSE e2))

\* Compiler::compile
compile(e, script_text) ==
    Bind(ScriptDef_parse(script_text), LAMBDA ast :
      IF ~ast.ok THEN [e EXCEPT !.err = "syntax error", !.ekind = "Syntax"]
      ELSE compile_ast(e, ast.val))

(***************************************************************************)
(* SpecText: one compile, on a Compiler just created, of a script given as *)
(* text: the input line of the crate's tests and up to MaxLines            *)
(* statements.                                                             *)
(***************************************************************************)
\* fn(a: u64, b: u64)
TextInput ==
    << Id("fn"), Sym("("), Id("a"), Sym(":"), Id("u64"), Sym(","),
       Id("b"), Sym(":"), Id("u64"), Sym(")") >>

IfText(left, op, right, body) ==
    << Id("if") >> \o left \o op \o right \o << Sym("{") >> \o body \o << Sym("}") >>

Return1 == << Id("return"), Num(1) >>

TextLines ==
    << \* c = 100
       << Id("c"), Sym("="), Num(100) >>,
       \* c = 100 + 1
       << Id("c"), Sym("="), Num(100), Sym("+"), Num(1) >>,
       \* c: u64 = a + b
       << Id("c"), Sym(":"), Id("u64"), Sym("="), Id("a"), Sym("+"), Id("b") >>,
       \* c: u64 = a
       << Id("c"), Sym(":"), Id("u64"), Sym("="), Id("a") >>,
       \* return 2
       << Id("return"), Num(2) >>,
       \* get_current_uid_gid()
       << Id("get_current_uid_gid"), Sym("("), Sym(")") >>,
       \* if a + c > b + 5 { return 1 }
       IfText(<< Id("a"), Sym("+"), Id("c") >>, << Sym(">") >>,
              << Id("b"), Sym("+"), Num(5) >>, Return1),
       \* if a > b { return a } else { return b }
       IfText(<< Id("a") >>, << Sym(">") >>, << Id("b") >>, << Id("return"), Id("a") >>)
          \o << Id("else"), Sym("{"), Id("return"), Id("b"), Sym("}") >>,
       \* if a == 5 { return 1 }
       IfText(<< Id("a") >>, << Sym("="), Sym("=") >>, << Num(5) >>, Return1),
       \* if a != b { }
       IfText(<< Id("a") >>, << Sym("!"), Sym("=") >>, << Id("b") >>, << >>),
       \* if a < b { return 1 }
       IfText(<< Id("a") >>, << Sym("<") >>, << Id("b") >>, Return1),
       \* if a <= b { return 1 }
       IfText(<< Id("a") >>, << Sym("<"), Sym("=") >>, << Id("b") >>, Return1),
       \* if a >= b { return 1 }
       IfText(<< Id("a") >>, << Sym(">"), Sym("=") >>, << Id("b") >>, Return1) >>

RECURSIVE TextOf(_)
TextOf(lines) ==
    IF lines = <<>> THEN TextInput
    ELSE TextOf(SubSeq(lines, 1, Len(lines) - 1)) \o TextLines[lines[Len(lines)]]

ScriptTexts ==
    { TextOf(lines) : lines \in UNION {[1..k -> DOMAIN TextLines] : k \in 0..MaxLines} }

\* Compiler::compile(script_text)
CompileText ==
    /\ pc = "idle"
    /\ \E script_text \in ScriptTexts :
          \E e \in {compile(EnvNow, script_text)} :
             /\ Commit(e, "done")
             /\ frames' = <<>>
             /\ hist' = [hist EXCEPT !.compiles = @ + 1, !.last = "compile",
                                     !.err = e.err, !.ekind = e.ekind,
                                     !.text = script_text]
    /\ UNCHANGED <<optVars, dbVars, hlpVars>>

(***************************************************************************)
(* The specifications.                                                     *)
(***************************************************************************)
Init == InitCompiler /\ DbForCompile /\ OptIdle /\ HlpIdle

Next ==
    \/ CompileStart
    \/ EmitAssign
    \/ EmitCall
    \/ EmitReturn
    \/ IfOpen
    \/ IfElse
    \/ IfClose
    \/ CompileEnd

Spec == Init /\ [][Next]_vars

InitOptSpec == InitOpt /\ DbIdle /\ CcIdle /\ HlpIdle

NextOpt ==
    \/ (OptFirst /\ UNCHANGED <<dbVars, ccVars, hlpVars>>)
    \/ (OptSecond /\ UNCHANGED <<dbVars, ccVars, hlpVars>>)
    \/ (OptRun /\ UNCHANGED <<dbVars, ccVars, hlpVars>>)

SpecOpt == InitOptSpec /\ [][NextOpt]_vars

InitWindowsSpec == InitWindows /\ DbIdle /\ CcIdle /\ HlpIdle

NextWindows == OptFirst /\ UNCHANGED <<dbVars, ccVars, hlpVars>>

SpecWindows == InitWindowsSpec /\ [][NextWindows]_vars

InitDbSpec == InitDb /\ OptIdle /\ CcIdle /\ HlpIdle

NextDb ==
    \/ (DbAddType /\ UNCHANGED <<optVars, ccVars, hlpVars>>)
    \/ (DbAddInteger /\ UNCHANGED <<optVars, ccVars, hlpVars>>)
    \/ (DbAddArray /\ UNCHANGED <<optVars, ccVars, hlpVars>>)
    \/ (DbAddStruct /\ UNCHANGED <<optVars, ccVars, hlpVars>>)
    \/ (DbAddStructByIds /\ UNCHANGED <<optVars, ccVars, hlpVars>>)
    \/ (DbAddStructByNames /\ UNCHANGED <<optVars, ccVars, hlpVars>>)

SpecDb == InitDbSpec /\ [][NextDb]_vars

NextBtf == DbAddBtfTypes /\ UNCHANGED <<optVars, ccVars, hlpVars>>

SpecBtf == InitDbSpec /\ [][NextBtf]_vars

InitPackSpec == InitPack /\ OptIdle /\ CcIdle /\ HlpIdle

NextPack ==
    \/ (PackByIds /\ UNCHANGED <<optVars, ccVars, hlpVars>>)
    \/ (PackByNames /\ UNCHANGED <<optVars, ccVars, hlpVars>>)

SpecPack == InitPackSpec /\ [][NextPack]_vars

NextStmt ==
    \/ Capture
    \/ StmtStart
    \/ StmtAssign
    \/ StmtCall
    \/ StmtReturn
    \/ CompileEnd

SpecStmt == Init /\ [][NextStmt]_vars

NextPrologue == PrologueStart \/ CompileEnd

NextDeref == Capture \/ StmtStart \/ DerefAssign \/ CompileEnd

SpecDeref == Init /\ [][NextDeref]_vars

NextCapture ==
    \/ CaptureAny
    \/ StmtStart
    \/ CapAssign
    \/ CapCall
    \/ CapReturn
    \/ CompileEnd

SpecCapture == Init /\ [][NextCapture]_vars

SpecPrologue == Init /\ [][NextPrologue]_vars

NextText == CompileText

SpecText == Init /\ [][NextText]_vars

InitHelpersSpec == InitHelpers /\ OptIdle /\ DbIdle /\ CcIdle

NextHelpers ==
    \/ (HelpersFromString /\ UNCHANGED <<optVars, dbVars, ccVars>>)
    \/ (HelpersAsU32 /\ UNCHANGED <<optVars, dbVars, ccVars>>)

SpecHelpers == InitHelpersSpec /\ [][NextHelpers]_vars

(***************************************************************************)
(* Properties.                                                             *)
(***************************************************************************)
Indexes == 1..Len(instructions)

\* a load or a store whose base register is R10
UsesStackBase(i) ==
    \/ i.op = "loadx" /\ i.src = R10
    \/ i.op \in {"store", "storex"} /\ i.dst = R10

\* C1: after a successful compile every load or store based on R10 has an
\* offset o with -4096 <= o < 0.
C1_StackOffsetsInFrame ==
    pc = "done" =>
        \A k \in Indexes :
            UsesStackBase(instructions[k]) =>
                /\ -MAX_STACK_SIZE <= instructions[k].off
                /\ instructions[k].off < 0

\* C2: at every point of the first compile of a Compiler, two different
\* names with Stack locations have different stack offsets.
C2_DistinctStackOffsets ==
    hist.compiles = 1 =>
        \A n1, n2 \in StackVars(variables) :
            n1 # n2 => variables[n1].location.val # variables[n2].location.val

\* C3: running optimize(x) leaves the same final registers and memory as
\* running x, for every stream x and every initial state.
C3_OptimizePreservesSemantics == optPc = "ran" => vmA = vmB

\* C4: optimize(optimize(x)) equals optimize(x) instruction for instruction.
C4_OptimizeIdempotent == optPc \in {"opt2", "ran"} => optOut2 = optOut

HasBlock(k, blk) ==
    \E d \in 1..Len(instructions[k].tag.path) : instructions[k].tag.path[d] = blk

\* the instructions of the then body (2 * id) and of the else body (2 * id + 1)
BlockIndexes(blk) == {k \in Indexes : HasBlock(k, blk)}

MinOf(S) == CHOOSE m \in S : \A k \in S : m <= k
MaxOf(S) == CHOOSE m \in S : \A k \in S : k <= m

\* the place of the jmp_ifx of if statement id
IsJif(j, id) ==
    /\ instructions[j].op = "jmp_ifx"
    /\ instructions[j].tag.role = "jif"
    /\ instructions[j].tag.ifid = id

\* the place a jmp_abs at place k (1-based) jumps to
JumpTarget(k) == k + 1 + instructions[k].off

\* first place after the then body of the if statement whose jmp_ifx is at j
AfterThen(j, id) ==
    IF BlockIndexes(2 * id) = {} THEN j + 2 ELSE MaxOf(BlockIndexes(2 * id)) + 1

IfJumpsRight(id, has_else) ==
    \E j \in Indexes :
        /\ IsJif(j, id)
        /\ j + 1 \in Indexes
        /\ instructions[j + 1].op = "jmp_abs"
        /\ IF ~has_else
           THEN JumpTarget(j + 1) = AfterThen(j, id)
           ELSE /\ BlockIndexes(2 * id + 1) # {}
                /\ JumpTarget(j + 1) = MinOf(BlockIndexes(2 * id + 1))
                /\ AfterThen(j, id) \in Indexes
                /\ instructions[AfterThen(j, id)].op = "jmp_abs"
                /\ JumpTarget(AfterThen(j, id)) = MaxOf(BlockIndexes(2 * id + 1)) + 1

\* C5: after a successful compile, for every if statement of the program the
\* jmp_abs directly after its jmp_ifx targets the first instruction of the
\* else body (the first after the then body when there is no else), and the
\* end jump after the then body targets the first instruction after the else
\* body.
C5_IfJumpTargets ==
    pc = "done" => \A c \in hist.closed : IfJumpsRight(c.id, c.has_else)

\* C6: after a successful compile the last instruction is exit.
C6_EndsWithExit ==
    pc = "done" =>
        /\ instructions # <<>>
        /\ instructions[Len(instructions)].op = "exit"

C6_Witness ==
    /\ pc = "done"
    /\ hist.lastTop = "Return"
    /\ hist.compiles = 1
    /\ Len(instructions) > 2

ImplicitReturn == << Retag(mov64(R0, 0), [NoTag EXCEPT !.path = <<>>]),
                     Retag(exit, [NoTag EXCEPT !.path = <<>>]) >>

C8_FreshEnvironment ==
    hist.compiles >= 1 =>
        hist.start = [ins |-> 0, stack |-> 0, expr_num |-> 1, stackVars |-> {}]

SizeById(id) == Type_get_size(get_type_by_id(TheDb, id))

FieldReach(f) == f.offset + 8 * SizeById(f.type_id)

StructBits(fields) ==
    IF DOMAIN fields = {} THEN 0
    ELSE MaxOf({FieldReach(fields[n]) : n \in DOMAIN fields})

\* C9: every Array entry has size = size(type now at element_type_id) *
\* num_elements and every Struct entry has size = max over its fields of
\* (offset + 8 * size(type now at type_id)) / 8.
C9_CachedSizes ==
    \A i \in 1..Len(types) :
        LET b == types[i].base_type IN
        /\ b.kind = "Array" => b.size = SizeById(b.element_type_id) * b.num_elements
        /\ b.kind = "Struct" => b.size = StructBits(b.fields) \div 8

\* an lvalue whose first deref indexes an array variable at or past its end
IndexPastEnd(l) ==
    /\ l.derefs # <<>>
    /\ Head(l.derefs).kind = "ArrayIndex"
    /\ l.name \in DOMAIN variables
    /\ variables[l.name].var_type.base_type.kind = "Array"
    /\ variables[l.name].var_type.num_refs = 0
    /\ Head(l.derefs).element >= variables[l.name].var_type.base_type.num_elements

\* C10: a statement with an ArrayIndex deref whose index is >= num_elements
\* is rejected with a Semantics error.
C10_IndexPastEndRejected ==
    (\E k \in 1..Len(hist.lvals) : IndexPastEnd(hist.lvals[k])) =>
        pc = "failed" /\ hist.ekind = "Semantics"

\* Every member of the enumeration beside its C-style snake_case name
HelperCNames ==
    << <<"MapLookupElem", "map_lookup_elem">>, <<"MapUpdateElem", "map_update_elem">>,
       <<"MapDeleteElem", "map_delete_elem">>, <<"ProbeRead", "probe_read">>,
       <<"TracePrintk", "trace_printk">>, <<"SkbStoreBytes", "skb_store_bytes">>,
       <<"L3CsumReplace", "l3_csum_replace">>, <<"L4CsumReplace", "l4_csum_replace">>,
       <<"TailCall", "tail_call">>, <<"CloneRedirect", "clone_redirect">>,
       <<"GetCurrentPidTgid", "get_current_pid_tgid">>, <<"GetCurrentUidGid", "get_current_uid_gid">>,
       <<"GetCurrentComm", "get_current_comm">>, <<"SkbVlanPush", "skb_vlan_push">>,
       <<"SkbVlanPop", "skb_vlan_pop">>, <<"SkbGetTunnelKey", "skb_get_tunnel_key">>,
       <<"SkbSetTunnelKey", "skb_set_tunnel_key">>, <<"Redirect", "redirect">>,
       <<"PerfEventOutput", "perf_event_output">>, <<"SkbLoadBytes", "skb_load_bytes">>,
       <<"GetStackid", "get_stackid">>, <<"SkbGetTunnelOpt", "skb_get_tunnel_opt">>,
       <<"SkbSetTunnelOpt", "skb_set_tunnel_opt">>, <<"SkbChangeProto", "skb_change_proto">>,
       <<"SkbChangeType", "skb_change_type">>, <<"SkbUnderCgroup", "skb_under_cgroup">>,
       <<"ProbeWriteUser", "probe_write_user">>, <<"CurrentTaskUnderCgroup", "current_task_under_cgroup">>,
       <<"SkbChangeTail", "skb_change_tail">>, <<"SkbPullData", "skb_pull_data">>,
       <<"GetNumaNodeId", "get_numa_node_id">>, <<"SkbChangeHead", "skb_change_head">>,
       <<"XdpAdjustHead", "xdp_adjust_head">>, <<"ProbeReadStr", "probe_read_str">>,
       <<"SetHash", "set_hash">>, <<"Setsockopt", "setsockopt">>,
       <<"SkbAdjustRoom", "skb_adjust_room">>, <<"RedirectMap", "redirect_map">>,
       <<"SkRedirectMap", "sk_redirect_map">>, <<"SockMapUpdate", "sock_map_update">>,
       <<"XdpAdjustMeta", "xdp_adjust_meta">>, <<"PerfEventReadValue", "perf_event_read_value">>,
       <<"PerfProgReadValue", "perf_prog_read_value">>, <<"Getsockopt", "getsockopt">>,
       <<"OverrideReturn", "override_return">>, <<"SockOpsCbFlagsSet", "sock_ops_cb_flags_set">>,
       <<"MsgRedirectMap", "msg_redirect_map">>, <<"MsgApplyBytes", "msg_apply_bytes">>,
       <<"MsgCorkBytes", "msg_cork_bytes">>, <<"MsgPullData", "msg_pull_data">>,
       <<"Bind", "bind">>, <<"XdpAdjustTail", "xdp_adjust_tail">>,
       <<"SkbGetXfrmState", "skb_get_xfrm_state">>, <<"GetStack", "get_stack">>,
       <<"SkbLoadBytesRelative", "skb_load_bytes_relative">>, <<"FibLookup", "fib_lookup">>,
       <<"SockHashUpdate", "sock_hash_update">>, <<"MsgRedirectHash", "msg_redirect_hash">>,
       <<"SkRedirectHash", "sk_redirect_hash">>, <<"LwtPushEncap", "lwt_push_encap">>,
       <<"LwtSeg6StoreBytes", "lwt_seg6_store_bytes">>, <<"LwtSeg6AdjustSrh", "lwt_seg6_adjust_srh">>,
       <<"LwtSeg6Action", "lwt_seg6_action">>, <<"RcRepeat", "rc_repeat">>,
       <<"RcKeydown", "rc_keydown">>, <<"SkSelectReuseport", "sk_select_reuseport">>,
       <<"SkRelease", "sk_release">>, <<"MapPushElem", "map_push_elem">>,
       <<"MapPopElem", "map_pop_elem">>, <<"MapPeekElem", "map_peek_elem">>,
       <<"MsgPushData", "msg_push_data">>, <<"MsgPopData", "msg_pop_data">>,
       <<"RcPointerRel", "rc_pointer_rel">>, <<"SpinLock", "spin_lock">>,
       <<"SpinUnlock", "spin_unlock">>, <<"SkbEcnSetCe", "skb_ecn_set_ce">>,
       <<"TcpCheckSyncookie", "tcp_check_syncookie">>, <<"SysctlGetName", "sysctl_get_name">>,
       <<"SysctlGetCurrentValue", "sysctl_get_current_value">>, <<"SysctlGetNewValue", "sysctl_get_new_value">>,
       <<"SysctlSetNewValue", "sysctl_set_new_value">>, <<"Strtol", "strtol">>,
       <<"Strtoul", "strtoul">>, <<"SkStorageDelete", "sk_storage_delete">>,
       <<"SendSignal", "send_signal">>, <<"SkbOutput", "skb_output">>,
       <<"ProbeReadUser", "probe_read_user">>, <<"ProbeReadKernel", "probe_read_kernel">>,
       <<"ProbeReadUserStr", "probe_read_user_str">>, <<"ProbeReadKernelStr", "probe_read_kernel_str">>,
       <<"TcpSendAck", "tcp_send_ack">>, <<"SendSignalThread", "send_signal_thread">>,
       <<"ReadBranchRecords", "read_branch_records">>, <<"GetNsCurrentPidTgid", "get_ns_current_pid_tgid">>,
       <<"XdpOutput", "xdp_output">>, <<"SkAssign", "sk_assign">>,
       <<"SeqPrintf", "seq_printf">>, <<"SeqWrite", "seq_write">>,
       <<"RingbufOutput", "ringbuf_output">>, <<"CsumLevel", "csum_level">>,
       <<"GetTaskStack", "get_task_stack">>, <<"LoadHdrOpt", "load_hdr_opt">>,
       <<"StoreHdrOpt", "store_hdr_opt">>, <<"ReserveHdrOpt", "reserve_hdr_opt">>,
       <<"DPath", "d_path">>, <<"CopyFromUser", "copy_from_user">>,
       <<"SnprintfBtf", "snprintf_btf">>, <<"SeqPrintfBtf", "seq_printf_btf">>,
       <<"RedirectNeigh", "redirect_neigh">>, <<"RedirectPeer", "redirect_peer">>,
       <<"TaskStorageDelete", "task_storage_delete">>, <<"BprmOptsSet", "bprm_opts_set">>,
       <<"ImaInodeHash", "ima_inode_hash">>, <<"CheckMtu", "check_mtu">>,
       <<"ForEachMapElem", "for_each_map_elem">>, <<"Snprintf", "snprintf">> >>

\* the member whose snake_case name is name
MemberNamed(name) ==
    HelperCNames[CHOOSE k \in DOMAIN HelperCNames : HelperCNames[k][2] = name][1]

IsHelperCName(name) == \E k \in DOMAIN HelperCNames : HelperCNames[k][2] = name

\* the integer ids the helper table fixes for the names it lists
ListedHelperIds ==
    << <<"map_lookup_elem", 1>>, <<"map_update_elem", 2>>, <<"map_delete_elem", 3>>,
       <<"probe_read", 4>>, <<"trace_printk", 6>>, <<"get_current_pid_tgid", 14>>,
       <<"get_current_uid_gid", 15>>, <<"get_current_comm", 16>>,
       <<"probe_read_user", 112>>, <<"probe_read_kernel", 113>> >>

\* C12: from_string maps the snake_case name of every member of Helpers to
\* that member, whose id is the value the table lists, and gives None for
\* every other name.
C12_FromStringAllMembers ==
    /\ hlpPc \in {"found", "id"} =>
          hlpRes = IF IsHelperCName(hlpName) THEN SomeHelper(MemberNamed(hlpName))
                   ELSE NoHelper
    /\ hlpPc = "id" =>
          \A k \in DOMAIN ListedHelperIds :
              ListedHelperIds[k][1] = hlpName => hlpId = ListedHelperIds[k][2]

DbSingleAdds == {"add_type", "add_integer", "add_array", "add_struct",
                 "add_struct_by_ids", "add_struct_by_names"}

\* C15: every database operation keeps the length from decreasing, keeps
\* every bound name at its id, keeps every id of name_map a valid index and
\* get_type_by_name(n) equal to get_type_by_id(get_type_id_by_name(n)); a
\* successful add under a bound name overwrites the slot of its id, returns
\* that id and keeps the length; any other successful add appends and
\* returns the previous length.
C15_StableIds ==
    [][/\ Len(types') >= Len(types)
       /\ \A n \in DOMAIN name_map :
              n \in DOMAIN name_map' /\ name_map'[n] = name_map[n]
       /\ \A n \in DOMAIN name_map' :
              /\ name_map'[n] \in 0 .. (Len(types') - 1)
              /\ get_type_by_name(Db(types', name_map'), n)
                    = get_type_by_id(Db(types', name_map'),
                                     get_type_id_by_name(Db(types', name_map'), n))
       /\ (dbLast'.op \in DbSingleAdds /\ dbLast'.ok) =>
              IF dbLast'.name # NoName /\ dbLast'.name \in DOMAIN name_map
              THEN /\ dbLast'.id = name_map[dbLast'.name]
                   /\ Len(types') = Len(types)
                   /\ \A j \in 1..Len(types) :
                          j # dbLast'.id + 1 => types'[j] = types[j]
              ELSE /\ dbLast'.id = Len(types)
                   /\ Len(types') = Len(types) + 1
                   /\ SubSeq(types', 1, Len(types)) = types]_vars

C15_Witness ==
    /\ dbLast.op = "add_type" /\ dbLast.ok
    /\ dbLast.name # NoName
    /\ dbLast.id < Len(types) - 1
    /\ types[dbLast.id + 1] # TypeDefault

\* the entry that add_btf_types binds to source type i
BtfEntry(i) == types[name_map[BtfIdName(i)] + 1]

\* the source types source type i refers to
BtfRefs(base_type) ==
    CASE base_type.kind = "Array"  -> {base_type.elem_type_id}
      [] base_type.kind = "Struct" ->
            {base_type.members[k].type_id : k \in DOMAIN base_type.members}
      [] OTHER -> {}

\* every reference of the list names a source type of the list that is not
\* itself an array or a struct
BtfFlat(btf) ==
    \A i \in DOMAIN btf : \A ref \in BtfRefs(btf[i].base_type) :
        /\ ref + 1 \in DOMAIN btf
        /\ btf[ref + 1].base_type.kind \notin {"Array", "Struct"}

BtfConverted(src, ty) ==
    /\ ty.num_refs = src.num_refs
    /\ ty.base_type.kind = (IF src.base_type.kind = "Other" THEN "Void"
                            ELSE src.base_type.kind)
    /\ src.base_type.kind = "Array" =>
          /\ ty.base_type.element_type_id = name_map[BtfIdName(src.base_type.elem_type_id)]
          /\ ty.base_type.num_elements = src.base_type.num_elements
          /\ ty.base_type.size
                = SizeById(ty.base_type.element_type_id) * ty.base_type.num_elements
    /\ src.base_type.kind = "Struct" =>
          /\ \A k \in DOMAIN src.base_type.members :
                LET m == src.base_type.members[k] IN
                /\ m.name \in DOMAIN ty.base_type.fields
                /\ ty.base_type.fields[m.name]
                      = Field(m.offset, name_map[BtfIdName(m.type_id)])
          /\ ty.base_type.size = StructBits(ty.base_type.fields) \div 8

\* C16: after add_btf_types succeeds, the entry named ".btf.i" holds the
\* conversion of source type i for every i, and every array or struct entry
\* refers to the entries of its element/member source types and caches the
\* size computed from their final sizes, whatever the order of the list.
C16_BtfForwardReferences ==
    (dbLast.op = "add_btf_types" /\ dbLast.ok /\ BtfFlat(dbLast.btf)) =>
        \A i \in 0 .. (Len(dbLast.btf) - 1) :
            /\ BtfIdName(i) \in DOMAIN name_map
            /\ BtfConverted(dbLast.btf[i + 1], BtfEntry(i))

\* The statement of SpecStmt just compiled, while compile is still in the
\* body or has returned an Err from it
AfterStmt(kind) == hist.last = kind /\ pc \in {"body", "failed"} /\ hist.n > 0

\* what the statement appended to the instruction vector
NewIns == SubSeq(instructions, Len(hist.pre.ins) + 1, Len(instructions))

SameSeq(s, t) == Len(s) = Len(t) /\ \A k \in 1..Len(s) : SameIns(s[k], t[k])

Rejected == pc = "failed" /\ hist.ekind = "Semantics"

Is64BitInteger(t) ==
    t.num_refs = 0 /\ t.base_type.kind = "Integer" /\ t.base_type.used_bits = 64

DeclaredType(decl) ==
    LET ty == get_type_by_name(TheDb, decl.name)
    IN IF decl.is_ref THEN [ty EXCEPT !.num_refs = @ + 1] ELSE ty

IsNewVariable == hist.stmt.left.name \notin DOMAIN hist.pre.vars

\* an assignment of get_current_uid_gid() to a new variable (with room for
\* 8 more bytes in the frame) or to a whole stack variable
CallAssignCase ==
    /\ AfterStmt("Assignment")
    /\ hist.stmt.right = RCall(CallUid)
    /\ IsNewVariable => hist.pre.stack + 8 <= MAX_STACK_SIZE
    /\ ~IsNewVariable =>
          /\ hist.pre.vars[hist.stmt.left.name].location.kind = "Stack"
          /\ hist.stmt.left.derefs = <<>>
          /\ ~hist.stmt.type_name.some

\* C11: an assignment from a helper call is accepted when the destination
\* is a 64-bit integer or a new variable without a type annotation, and
\* then emits the call and storex64 R10,offset,R0 into an 8-byte slot; any
\* other destination type is rejected with a Semantics error.
C11_CallAssignment ==
    CallAssignCase =>
        IF IsNewVariable
        THEN IF ~hist.stmt.type_name.some
                \/ Is64BitInteger(DeclaredType(hist.stmt.type_name))
             THEN /\ pc = "body"
                  /\ stack = hist.pre.stack + 8
                  /\ SameSeq(NewIns, << call(15), storex64(R10, -stack, R0) >>)
             ELSE Rejected
        ELSE IF Is64BitInteger(hist.pre.vars[hist.stmt.left.name].var_type)
             THEN /\ pc = "body"
                  /\ stack = hist.pre.stack
                  /\ SameSeq(NewIns,
                             << call(15),
                                storex64(R10,
                                         hist.pre.vars[hist.stmt.left.name].location.val,
                                         R0) >>)
             ELSE Rejected

\* an assignment to a variable that is bound to a stack slot
ReassignCase ==
    /\ AfterStmt("Assignment")
    /\ ~IsNewVariable
    /\ hist.pre.vars[hist.stmt.left.name].location.kind = "Stack"

\* stack_off + rel_off of the assignment's left side, and the type there
ReassignTarget ==
    LET info == hist.pre.vars[hist.stmt.left.name]
        d == get_deref_offset(EnvNow, info.var_type, hist.stmt.left.derefs)
    IN [off |-> info.location.val + d.off, size |-> Type_get_size(d.ty)]

IsStackStore(i) == i.op \in {"store", "storex"} /\ i.dst = R10

\* is writes at stack offset o: by a store, or through probe_read with
\* R1 = R10 + o; and no store of `is` leaves the size bytes from o on
WritesAt(is, o, size) ==
    /\ \/ \E k \in 1..Len(is) : IsStackStore(is[k]) /\ is[k].off = o
       \/ \E k \in 1..(Len(is) - 1) :
             /\ SameIns(is[k], movx64(R1, R10))
             /\ SameIns(is[k + 1], add64(R1, o))
             /\ SameIns(is[Len(is)], call(ProbeRead))
    /\ \A k \in 1..Len(is) :
          IsStackStore(is[k]) =>
              /\ o <= is[k].off
              /\ is[k].off + (is[k].size \div 8) <= o + size

\* C13: an assignment to an existing stack variable leaves the variable
\* table and the stack counter as they were and, when accepted, writes the
\* value at stack_off + rel_off; with a type annotation it is rejected with
\* a Semantics error.
C13_ReassignKeepsFrame ==
    ReassignCase =>
        /\ variables = hist.pre.vars
        /\ stack = hist.pre.stack
        /\ hist.stmt.type_name.some => Rejected
        /\ pc = "body" => WritesAt(NewIns, ReassignTarget.off, ReassignTarget.size)

C13_Witness ==
    /\ ReassignCase
    /\ pc = "body"
    /\ hist.stmt.left.derefs # <<>>
    /\ hist.stmt.right.kind = "LValue"
    /\ Len(NewIns) >= 5

\* the sizes push_stack is asked for in the model's programs
PushSizes == {0, 1, 7, 8, 16, PageElems * 8}

PushStackContract(n) ==
    IF stack + n > MAX_STACK_SIZE
    THEN /\ ~Ok(push_stack(EnvNow, n))
         /\ push_stack(EnvNow, n).ekind = "Semantics"
         /\ push_stack(EnvNow, n).stack = stack
    ELSE /\ Ok(push_stack(EnvNow, n))
         /\ push_stack(EnvNow, n).stack = stack + n
         /\ push_stack(EnvNow, n).off = -(stack + n)

\* C14: no step of a compile lowers the stack counter or takes it past
\* 4096, and push_stack(n) returns a Semantics error and leaves stack as it
\* is when stack + n > 4096, and otherwise adds n and returns -stack.
C14_StackBounded ==
    [][/\ stack' >= stack
       /\ stack' <= MAX_STACK_SIZE
       /\ \A n \in PushSizes : PushStackContract(n)]_vars

C14_Witness ==
    /\ pc = "failed"
    /\ hist.err = "Stack size exceeded 4096 bytes with this assignment"
    /\ hist.pre.stack = MAX_STACK_SIZE
    /\ stack = MAX_STACK_SIZE

\* the Compiler as it was before the statement
EnvPre ==
    [EnvNow EXCEPT !.ins = <<>>, !.stack = hist.pre.stack, !.vars = hist.pre.vars]

\* the instructions that put the address of lval in reg, and its type
AddrOf(reg, lval) == emit_set_register_to_lvalue_addr(EnvPre, reg, lval)

\* the cast type emit_assign passes for the assignment's left side
CastType ==
    IF IsNewVariable
    THEN IF hist.stmt.type_name.some THEN DeclaredType(hist.stmt.type_name)
         ELSE TypeDefault
    ELSE get_deref_offset(EnvPre, hist.pre.vars[hist.stmt.left.name].var_type,
                          hist.stmt.left.derefs).ty

\* the left side of the assignment names a place: a new variable of a known
\* type, or an existing stack variable whose derefs resolve, not re-typed
LeftResolves ==
    IF IsNewVariable
    THEN hist.stmt.type_name.some => HasTypeByName(TheDb, hist.stmt.type_name.name)
    ELSE /\ ~hist.stmt.type_name.some
         /\ hist.pre.vars[hist.stmt.left.name].location.kind = "Stack"
         /\ Ok(get_deref_offset(EnvPre, hist.pre.vars[hist.stmt.left.name].var_type,
                                hist.stmt.left.derefs))

\* an assignment whose right side is an lvalue without prefix that resolves
LvalueCopyCase ==
    /\ AfterStmt("Assignment")
    /\ hist.stmt.right.kind = "LValue"
    /\ hist.stmt.right.lval.prefix = ""
    /\ Ok(AddrOf(R6, hist.stmt.right.lval))
    /\ LeftResolves

EffectiveType ==
    IF CastType.base_type.kind = "Void" THEN AddrOf(R6, hist.stmt.right.lval).ty
    ELSE CastType

DestOffset ==
    IF IsNewVariable THEN -(hist.pre.stack + Type_get_size(EffectiveType))
    ELSE ReassignTarget.off

\* C18: an lvalue without prefix on the right of an assignment is copied
\* through probe_read: after R6 holds its address the emitter emits
\* R1 = R10 + destination offset, R2 = size of the effective type, R3 = R6,
\* call 4; the effective type is the lvalue's type under a Void cast type
\* and the cast type otherwise, and the assignment is rejected when their
\* sizes differ.
C18_LvalueCopiedByProbeRead ==
    LvalueCopyCase =>
        IF Type_get_size(EffectiveType)
             # Type_get_size(AddrOf(R6, hist.stmt.right.lval).ty)
        THEN Rejected
        ELSE IF IsNewVariable
                /\ hist.pre.stack + Type_get_size(EffectiveType) > MAX_STACK_SIZE
        THEN Rejected
        ELSE /\ pc = "body"
             /\ SameSeq(NewIns,
                        AddrOf(R6, hist.stmt.right.lval).ins
                        \o << movx64(R1, R10), add64(R1, DestOffset),
                              mov64(R2, Type_get_size(EffectiveType)),
                              movx64(R3, R6), call(4) >>)

C18_Witness ==
    /\ LvalueCopyCase
    /\ pc = "body"
    /\ hist.stmt.type_name.some
    /\ Type_get_size(EffectiveType) = 16
    /\ Len(NewIns) = 7

\* an assignment of a literal byte value to a compound (array or struct)
\* place of non-zero size, with room in the frame when the variable is new
MemsetCase ==
    /\ AfterStmt("Assignment")
    /\ hist.stmt.right.kind = "Immediate"
    /\ hist.stmt.right.imm <= 127
    /\ LeftResolves
    /\ ~Type_is_pointer(CastType)
    /\ CastType.base_type.kind \in {"Array", "Struct"}
    /\ Type_get_size(CastType) > 0
    /\ IsNewVariable => hist.pre.stack + Type_get_size(CastType) <= MAX_STACK_SIZE

MemsetOffset ==
    IF IsNewVariable THEN -(hist.pre.stack + Type_get_size(CastType))
    ELSE ReassignTarget.off

\* byte j (0-based, little endian) of what store i writes
StoreByte(i, j) ==
    IF i.aux = "bytes" THEN i.imm
    ELSE IF j < 4 THEN (i.imm \div (256 ^ j)) % 256 ELSE 0

\* the number of stores of `is` that are w bits wide
StoresOfWidth(is, w) == Cardinality({k \in 1..Len(is) : is[k].size = w})

\* `is` is a run of stores based on R10 that starts at o, where each store
\* begins where the one before ended and is no wider than it, that ends at
\* o + S and writes value to every byte
IsMemset(is, o, S, value) ==
    /\ is # <<>>
    /\ \A k \in 1..Len(is) :
          /\ is[k].op = "store" /\ is[k].dst = R10
          /\ \A j \in 0 .. (is[k].size \div 8 - 1) : StoreByte(is[k], j) = value
    /\ is[1].off = o
    /\ \A k \in 1..(Len(is) - 1) :
          /\ is[k + 1].off = is[k].off + is[k].size \div 8
          /\ is[k + 1].size <= is[k].size
    /\ is[Len(is)].off + is[Len(is)].size \div 8 = o + S
    /\ StoresOfWidth(is, 64) = S \div 8
    /\ StoresOfWidth(is, 32) = (S % 8) \div 4
    /\ StoresOfWidth(is, 16) = (S % 4) \div 2
    /\ StoresOfWidth(is, 8) = S % 2

\* C19: an immediate assigned to a compound destination of size S at offset
\* o emits stores that cover the bytes [o, o + S) once each in increasing
\* address order, as S/8 store64, then (S mod 8)/4 store32, then
\* (S mod 4)/2 store16, then (S mod 2) store8, each byte the literal value.
C19_UnrolledMemset ==
    MemsetCase =>
        /\ pc = "body"
        /\ IsMemset(NewIns, MemsetOffset, Type_get_size(CastType), hist.stmt.right.imm)

C19_Witness ==
    /\ MemsetCase
    /\ pc = "body"
    /\ Type_get_size(CastType) = 7
    /\ hist.stmt.right.imm = 3
    /\ Len(NewIns) = 3

\* a return of an lvalue held on the stack whose address computation
\* succeeds
ReturnLvalueCase ==
    /\ AfterStmt("Return")
    /\ hist.stmt.right.kind = "LValue"
    /\ hist.stmt.right.lval.name \in DOMAIN hist.pre.vars
    /\ hist.pre.vars[hist.stmt.right.lval.name].location.kind = "Stack"
    /\ Ok(AddrOf(R0, hist.stmt.right.lval))

\* the type the address in R0 points at, and its size
ResolvedType == AddrOf(R0, hist.stmt.right.lval).ty
ResolvedSize == Type_get_size(ResolvedType)

\* what the statement emitted after the address computation
AfterAddr ==
    SubSeq(NewIns, Len(AddrOf(R0, hist.stmt.right.lval).ins) + 1, Len(NewIns))

LoadsOf(is) == SelectSeq(is, LAMBDA i : i.op \in {"load", "loadx"})

\* C20: setting a register to the value of a stack lvalue emits, after the
\* address computation, no load under the prefix `&`; otherwise exactly one
\* load as wide as the resolved type, whose size must be 1, 2, 4 or 8 bytes
\* (any other size is a Semantics error); under the prefix `*` the resolved
\* type must be a pointer (else a Semantics error) and one more 64-bit load
\* follows.
C20_RegisterFromStackLvalue ==
    ReturnLvalueCase =>
        /\ SameSeq(SubSeq(NewIns, 1, Len(AddrOf(R0, hist.stmt.right.lval).ins)),
                   AddrOf(R0, hist.stmt.right.lval).ins)
        /\ CASE hist.stmt.right.lval.prefix = "&" ->
                  pc = "body" /\ SameSeq(AfterAddr, << exit >>)
             [] ResolvedSize \notin {1, 2, 4, 8} ->
                  Rejected /\ LoadsOf(AfterAddr) = <<>>
             [] hist.stmt.right.lval.prefix = "" ->
                  /\ pc = "body"
                  /\ SameSeq(AfterAddr, << loadx(R0, R0, 0, ResolvedSize * 8), exit >>)
             [] OTHER ->
                  IF Type_is_pointer(ResolvedType)
                  THEN /\ pc = "body"
                       /\ SameSeq(AfterAddr, << loadx(R0, R0, 0, ResolvedSize * 8),
                                                loadx(R0, R0, 0, 64), exit >>)
                  ELSE Rejected

C20_Witness ==
    /\ ReturnLvalueCase
    /\ pc = "body"
    /\ hist.stmt.right.lval.prefix = ""
    /\ ResolvedSize = 1
    /\ SameSeq(AfterAddr, << loadx(R0, R0, 0, 8), exit >>)

C20_WitnessDeref ==
    /\ ReturnLvalueCase
    /\ pc = "body"
    /\ hist.stmt.right.lval.prefix = "*"
    /\ Len(LoadsOf(AfterAddr)) = 2

\* What a register holds while the instructions of one statement run: a
\* constant, the address R10 + v, the w bits read from the frame at R10 + v,
\* the value returned by the call at position v of the statement, or a value
\* of none of these forms.
SymImm(n)     == [k |-> "imm", v |-> n, w |-> 0]
SymAddr(o)    == [k |-> "addr", v |-> o, w |-> 0]
SymMem(o, w)  == [k |-> "mem", v |-> o, w |-> w]
SymRet(n)     == [k |-> "ret", v |-> n, w |-> 0]
SymOther      == [k |-> "other", v |-> 0, w |-> 0]

SymRegs0 == [r \in 0..10 |-> IF r = R10 THEN SymAddr(0) ELSE SymOther]

\* instruction i at position n of the statement; a call is taken to write
\* R0 only
SymStep(regs, i, n) ==
    CASE i.op \in {"mov64", "loadtype"} -> [regs EXCEPT ![i.dst] = SymImm(i.imm)]
      [] i.op = "movx64" -> [regs EXCEPT ![i.dst] = regs[i.src]]
      [] i.op = "add64" ->
            [regs EXCEPT ![i.dst] = IF @.k = "addr" THEN SymAddr(@.v + i.imm)
                                    ELSE SymOther]
      [] i.op = "loadx" ->
            [regs EXCEPT ![i.dst] = IF regs[i.src].k = "addr"
                                    THEN SymMem(regs[i.src].v + i.off, i.size)
                                    ELSE SymOther]
      [] i.op = "call" -> [regs EXCEPT ![R0] = SymRet(n)]
      [] OTHER -> regs

\* the registers after the first n instructions of `is`
RECURSIVE SymRun(_, _)
SymRun(is, n) ==
    IF n = 0 THEN SymRegs0 ELSE SymStep(SymRun(is, n - 1), is[n], n)

\* an argument whose value is a constant, a capture, a whole stack variable
\* that fits a register, or the address of a whole stack variable
IsPlainArg(arg) ==
    \/ arg.kind = "Immediate"
    \/ /\ arg.kind = "LValue"
       /\ arg.lval.name \in DOMAIN hist.pre.vars
       /\ arg.lval.derefs = <<>>
       /\ arg.lval.prefix \in {"", "&"}
       /\ (hist.pre.vars[arg.lval.name].location.kind = "Stack"
             /\ arg.lval.prefix = "")
          => Type_get_size(hist.pre.vars[arg.lval.name].var_type) \in {1, 2, 4, 8}

\* a call of a known helper with at most 5 plain arguments
IsPlainCall(c) ==
    /\ Helpers_from_string(c.name).some
    /\ Len(c.args) <= 5
    /\ \A j \in 1..Len(c.args) : IsPlainArg(c.args[j])

\* val is the value of the argument arg of a call in the statement `is`
HoldsArg(val, arg, is) ==
    CASE arg.kind = "Immediate" -> val = SymImm(arg.imm)
      [] arg.kind = "LValue" ->
            LET info == hist.pre.vars[arg.lval.name]
            IN IF info.location.kind = "SpecialImmediate"
               THEN val = SymImm(info.location.val)
               ELSE IF arg.lval.prefix = "&"
               THEN val = SymAddr(info.location.val)
               ELSE val = SymMem(info.location.val, Type_get_size(info.var_type) * 8)
      [] OTHER ->
            /\ val.k = "ret"
            /\ is[val.v].imm = Helpers_as_u32(Helpers_from_string(arg.call.name).val)

\* a statement that calls a known helper with at most 5 arguments, each
\* plain or a call of a known helper with plain arguments
HelperCallCase ==
    /\ AfterStmt("FunctionCall")
    /\ Helpers_from_string(hist.stmt.right.call.name).some
    /\ Len(hist.stmt.right.call.args) <= 5
    /\ \A j \in 1..Len(hist.stmt.right.call.args) :
          \/ IsPlainArg(hist.stmt.right.call.args[j])
          \/ /\ hist.stmt.right.call.args[j].kind = "FunctionCall"
             /\ IsPlainCall(hist.stmt.right.call.args[j].call)

\* C17: when the call instruction of a helper call with k <= 5 arguments
\* executes, R(i+1) holds the value of argument i for every i < k, whatever
\* the kind of the argument (immediate, lvalue, capture, nested call in any
\* position); a call with more than 5 arguments or of an unknown helper is
\* rejected with a Semantics error.
C17_ArgumentsInRegisters ==
    /\ HelperCallCase =>
          /\ pc = "body"
          /\ NewIns # <<>>
          /\ SameIns(NewIns[Len(NewIns)],
                     call(Helpers_as_u32(
                            Helpers_from_string(hist.stmt.right.call.name).val)))
          /\ \A j \in 1..Len(hist.stmt.right.call.args) :
                HoldsArg(SymRun(NewIns, Len(NewIns) - 1)[j],
                         hist.stmt.right.call.args[j], NewIns)
    /\ (/\ AfterStmt("FunctionCall")
        /\ \/ ~Helpers_from_string(hist.stmt.right.call.name).some
           \/ Len(hist.stmt.right.call.args) > 5)
       => Rejected

\* compile has just run emit_prologue on a Compiler that was just created
AfterPrologue ==
    /\ hist.last = "InputLine" /\ hist.compiles = 1
    /\ pc \in {"body", "failed"}

\* all declared types of the input line have a name in the database
ParamTypesKnown ==
    \A i \in 1..Len(hist.params) : HasTypeByName(TheDb, hist.params[i].type_name.name)

\* no later parameter has the name of parameter i
IsLastOfName(i) ==
    \A j \in (i + 1)..Len(hist.params) : hist.params[j].name # hist.params[i].name

\* C21: the prologue for k <= 5 parameters emits storex64 R10, -8*i, Ri
\* for i = 1..k in order and binds parameter i to Stack(-8*i) with its
\* declared type (num_refs + 1 when declared with `&`), 8 bytes for each
\* parameter whatever its declared size; more than 5 parameters are
\* rejected with a Semantics error with no instruction emitted and no
\* stack reserved.  (A name that occurs twice stays bound to its last
\* parameter.)
C21_Prologue ==
    AfterPrologue =>
        IF Len(hist.params) > 5
        THEN Rejected /\ instructions = <<>> /\ stack = 0 /\ variables = EmptyMap
        ELSE ParamTypesKnown =>
               /\ pc = "body"
               /\ stack = 8 * Len(hist.params)
               /\ SameSeq(instructions,
                          [i \in 1..Len(hist.params) |-> storex64(R10, -8 * i, i)])
               /\ \A i \in 1..Len(hist.params) :
                     IsLastOfName(i) =>
                        /\ hist.params[i].name \in DOMAIN variables
                        /\ variables[hist.params[i].name] =
                              VariableInfo(DeclaredType(hist.params[i].type_name),
                                           StackLoc(-8 * i))

C21_Witness ==
    /\ AfterPrologue
    /\ pc = "body"
    /\ Len(hist.params) = 5
    /\ hist.params[5] = TypedArgument("p", TypeDecl(TRUE, "iovec"))
    /\ hist.params[4] = TypedArgument("a", TypeDecl(FALSE, "page"))
    /\ variables["p"].var_type.num_refs = 1
    /\ variables["a"].location = StackLoc(-32)
    /\ stack = 40

IsCaptured(lval) ==
    /\ lval.name \in DOMAIN hist.pre.vars
    /\ hist.pre.vars[lval.name].location.kind = "SpecialImmediate"

\* the statement read the capture named by lval into reg in a context that
\* supplies load_type
ReadsCapture(is, reg, lval, load_type) ==
    SameSeq(is, << loadtype(reg, hist.pre.vars[lval.name].location.val, load_type) >>)

\* the emitted instructions of a call whose arguments are all whole
\* captures: one typed load per argument, then the call
CapturesOnlyCall(c) ==
    /\ Helpers_from_string(c.name).some
    /\ \A j \in 1..Len(c.args) :
          /\ c.args[j].kind = "LValue"
          /\ IsCaptured(c.args[j].lval)
          /\ c.args[j].lval.derefs = <<>>

\* C22: capture(name, v) binds a SpecialImmediate holding v modulo 2^32;
\* reading it into a register emits one loadtype(reg, v mod 2^32,
\* load_type), with load_type Void unless the context (a helper's
\* argument type) supplies one; a field or index deref of it, an
\* assignment to it and its use as the right side of an assignment are
\* rejected with a Semantics error; none of these changes its binding.
C22_Capture ==
    /\ "m" \in DOMAIN variables =>
          variables["m"] = VariableInfo(U64Type, SpecialImmediate(hist.cap.lo))
    /\ (AfterStmt("Return") /\ IsCaptured(hist.stmt.right.lval)) =>
          IF hist.stmt.right.lval.derefs = <<>>
          THEN /\ pc = "body"
               /\ ReadsCapture(SubSeq(NewIns, 1, Len(NewIns) - 1), R0,
                               hist.stmt.right.lval, "Void")
               /\ SameIns(NewIns[Len(NewIns)], exit)
          ELSE Rejected /\ NewIns = <<>>
    /\ (AfterStmt("FunctionCall") /\ CapturesOnlyCall(hist.stmt.right.call)) =>
          /\ pc = "body"
          /\ Len(NewIns) = Len(hist.stmt.right.call.args) + 1
          /\ \A j \in 1..Len(hist.stmt.right.call.args) :
                ReadsCapture(<< NewIns[j] >>, j, hist.stmt.right.call.args[j].lval,
                             get_arg_types(Helpers_from_string(
                                 hist.stmt.right.call.name).val)[j])
    /\ (/\ AfterStmt("FunctionCall")
        /\ \E j \in 1..Len(hist.stmt.right.call.args) :
              /\ hist.stmt.right.call.args[j].kind = "LValue"
              /\ IsCaptured(hist.stmt.right.call.args[j].lval)
              /\ hist.stmt.right.call.args[j].lval.derefs # <<>>)
       => Rejected
    /\ (/\ AfterStmt("Assignment")
        /\ \/ IsCaptured(hist.stmt.left)
           \/ /\ hist.stmt.right.kind = "LValue"
              /\ IsCaptured(hist.stmt.right.lval))
       => Rejected /\ NewIns = <<>> /\ variables = hist.pre.vars /\ stack = hist.pre.stack

C22_Witness ==
    /\ AfterStmt("FunctionCall")
    /\ CapturesOnlyCall(hist.stmt.right.call)
    /\ hist.cap = I64(1, 7)
    /\ SameSeq(NewIns, << loadtype(R1, 7, "Map"), loadtype(R2, 7, "MapIndex"), call(3) >>)

C22_WitnessRejected ==
    /\ AfterStmt("Assignment")
    /\ IsCaptured(hist.stmt.left)
    /\ hist.stmt.left.derefs = <<>>
    /\ ~hist.stmt.type_name.some
    /\ hist.stmt.right.kind = "Immediate"
    /\ Rejected

\* The place a deref chain names inside a value of type ty, by the layout
\* of the types: st is "indirection" when a deref is applied to a pointer,
\* "ok" with the byte offset and the type of the place when every field
\* exists at a byte boundary and every index is below num_elements, and
\* "other" otherwise.
RECURSIVE PlaceOf(_, _)
PlaceOf(ty, derefs) ==
    IF derefs = <<>> THEN [st |-> "ok", off |-> 0, ty |-> ty]
    ELSE IF Type_is_pointer(ty) THEN [st |-> "indirection", off |-> 0, ty |-> ty]
    ELSE IF Head(derefs).kind = "FieldAccess"
    THEN IF /\ ty.base_type.kind = "Struct"
            /\ Head(derefs).name \in DOMAIN ty.base_type.fields
            /\ ty.base_type.fields[Head(derefs).name].offset % 8 = 0
         THEN LET f == ty.base_type.fields[Head(derefs).name]
                  rest == PlaceOf(TheDb.types[f.type_id + 1], Tail(derefs))
              IN [rest EXCEPT !.off = @ + f.offset \div 8]
         ELSE [st |-> "other", off |-> 0, ty |-> ty]
    ELSE IF /\ ty.base_type.kind = "Array"
            /\ Head(derefs).element < ty.base_type.num_elements
         THEN LET el == TheDb.types[ty.base_type.element_type_id + 1]
                  rest == PlaceOf(el, Tail(derefs))
              IN [rest EXCEPT !.off = @ + Head(derefs).element * Type_get_size(el)]
         ELSE [st |-> "other", off |-> 0, ty |-> ty]

\* an assignment, without a type annotation, to an existing stack variable
\* through a deref chain
DerefAssignCase ==
    /\ ReassignCase
    /\ ~hist.stmt.type_name.some
    /\ hist.stmt.left.derefs # <<>>

LeftPlace ==
    PlaceOf(hist.pre.vars[hist.stmt.left.name].var_type, hist.stmt.left.derefs)

LeftBase == hist.pre.vars[hist.stmt.left.name].location.val

\* C23: the deref chain on the left of an assignment to an existing
\* variable is offset arithmetic only: when a deref is applied to a pointer
\* the assignment is rejected with "Can't deref an offset through an
\* indirection" and emits nothing; otherwise the value is written at the
\* variable's offset plus the sum of the field byte offsets and
\* index * element size terms, with the final field or element type as
\* cast type.
C23_LeftDerefsAreOffsets ==
    DerefAssignCase =>
        /\ LeftPlace.st = "indirection" =>
              /\ Rejected
              /\ hist.err = "Can't deref an offset through an indirection"
              /\ NewIns = <<>>
        /\ LeftPlace.st = "ok" =>
              /\ pc = "body" =>
                    WritesAt(NewIns, LeftBase + LeftPlace.off, Type_get_size(LeftPlace.ty))
              /\ (/\ hist.stmt.right.kind = "Immediate"
                  /\ ~Type_is_pointer(LeftPlace.ty)
                  /\ LeftPlace.ty.base_type.kind = "Integer")
                 => /\ pc = "body"
                    /\ SameSeq(NewIns, << store(R10, LeftBase + LeftPlace.off,
                                                hist.stmt.right.imm,
                                                Type_get_size(LeftPlace.ty) * 8) >>)
              /\ (hist.stmt.right.kind = "LValue" /\ pc = "body")
                 => \E k \in 1..Len(NewIns) :
                       SameIns(NewIns[k], mov64(R2, Type_get_size(LeftPlace.ty)))

C23_Witness ==
    /\ DerefAssignCase
    /\ LeftPlace.st = "ok"
    /\ Len(hist.stmt.left.derefs) = 2
    /\ LeftPlace.off = 17
    /\ pc = "body"
    /\ hist.stmt.right.kind = "Immediate"

C23_WitnessIndirection ==
    /\ DerefAssignCase
    /\ LeftPlace.st = "indirection"
    /\ Len(hist.stmt.left.derefs) = 2
    /\ Rejected

\* r is an error that hands the database back as it is
FailsUnchanged(r) == ~r.ok /\ r.db = TheDb

\* on the database as it is now, every constructor call of the model that
\* names a type the database does not hold fails and changes nothing
UnknownTypesRefused ==
    \A name \in DbNames :
        /\ \A fields \in DbNameLists :
              (\E k \in 1..Len(fields) : ~HasName(TheDb, fields[k][2]))
                  => FailsUnchanged(add_struct_by_names(TheDb, name, fields))
        /\ \A fields \in DbIdLists :
              (\E k \in 1..Len(fields) : fields[k][2] >= Len(types))
                  => FailsUnchanged(add_struct_by_ids(TheDb, name, fields))
        /\ \A fields \in DbFieldLists :
              (\E k \in 1..Len(fields) : fields[k][2].type_id >= Len(types))
                  => FailsUnchanged(add_struct(TheDb, name, fields))
        /\ \A id \in DbIds :
              id >= Len(types) => FailsUnchanged(add_array(TheDb, name, id, 2))

\* C24: a constructor given an unknown field or element type fails without
\* a silent conversion and without changing the database:
\* add_struct_by_names with an unbound type name, add_struct_by_ids or
\* add_struct with an id >= the number of types, and add_array with an
\* unknown element id return an error, append no type and bind no name.
C24_UnknownTypesRefused ==
    [][/\ UnknownTypesRefused
       /\ ~dbLast'.ok => (types' = types /\ name_map' = name_map)]_vars

C24_Witness ==
    /\ dbLast.op = "add_struct_by_names"
    /\ ~dbLast.ok
    /\ Len(types) = 2
    /\ "a" \in DOMAIN name_map
    /\ "zz" \notin DOMAIN name_map

\* the sum of the sizes of the first k fields given to the constructor
RECURSIVE PackedBytes(_)
PackedBytes(k) ==
    IF k = 0 THEN 0
    ELSE PackedBytes(k - 1) + Type_get_size(PackDb.types[dbLast.fields[k] + 1])

AfterPack == dbLast.op \in {"add_struct_by_ids", "add_struct_by_names"}

PackedStruct == types[dbLast.id + 1]

\* C25: add_struct_by_ids and add_struct_by_names pack the fields at byte
\* boundaries in the given order: field k gets offset_bits = 8 * (the sum
\* of the sizes of the fields before it) and the size of the struct is the
\* sum of the sizes of all fields (u64, u32, u16, u8 gives the offsets 0,
\* 64, 96, 112 and the size 15).
C25_PackedStruct ==
    AfterPack =>
        /\ dbLast.ok
        /\ dbLast.id = Len(PackDb.types)
        /\ Len(types) = Len(PackDb.types) + 1
        /\ name_map = MapPut(PackDb.name_map, "s", dbLast.id)
        /\ PackedStruct.num_refs = 0
        /\ PackedStruct.base_type.kind = "Struct"
        /\ DOMAIN PackedStruct.base_type.fields
              = {PackFieldNames[k] : k \in 1..Len(dbLast.fields)}
        /\ \A k \in 1..Len(dbLast.fields) :
              PackedStruct.base_type.fields[PackFieldNames[k]]
                  = Field(8 * PackedBytes(k - 1), dbLast.fields[k])
        /\ PackedStruct.base_type.size = PackedBytes(Len(dbLast.fields))

C25_Witness ==
    /\ AfterPack
    /\ dbLast.fields = <<0, 1, 2, 3>>
    /\ PackedStruct.base_type.fields["f1"].offset = 0
    /\ PackedStruct.base_type.fields["f2"].offset = 64
    /\ PackedStruct.base_type.fields["f3"].offset = 96
    /\ PackedStruct.base_type.fields["f4"].offset = 112
    /\ PackedStruct.base_type.size = 15

(***************************************************************************)
(* Scripts given as text (SpecText).                                       *)
(***************************************************************************)
AfterCompileText == hist.last = "compile"

HasToken(t) == \E i \in DOMAIN hist.text : hist.text[i] = t

\* the instructions tests::test_arithmetic expects for `+` (lib.rs 342-344)
R7 == 7
alux64(dst, src, op) == Ins("alux64", dst, src, 0, 0, 64, op)

\* C26: a script that uses binary `+` in the right-hand side of an
\* assignment or in the operands of an if condition is accepted by compile,
\* and the instructions emitted for it contain alux64(R6, R7, Add).
C26_BinaryPlusCompiles ==
    (AfterCompileText /\ HasToken(Sym("+")))
        => /\ pc = "done"
           /\ \E i \in DOMAIN instructions :
                 SameIns(instructions[i], alux64(R6, R7, "Add"))

\* a script whose body is one if statement with the comparator op between
\* the operands a and b (or 5), and no `+`
OneLineTexts == { TextOf(<<k>>) : k \in DOMAIN TextLines }

Comparators == {"==", "!=", "<", "<=", ">", ">="}

Written(op) ==
    /\ AfterCompileText
    /\ hist.text \in OneLineTexts
    /\ ~HasToken(Sym("+"))
    /\ hist.text[11] = Id("if")
    /\ CASE op = "==" -> hist.text[13] = Sym("=") /\ hist.text[14] = Sym("=")
         [] op = "!=" -> hist.text[13] = Sym("!") /\ hist.text[14] = Sym("=")
         [] op = "<=" -> hist.text[13] = Sym("<") /\ hist.text[14] = Sym("=")
         [] op = ">=" -> hist.text[13] = Sym(">") /\ hist.text[14] = Sym("=")
         [] op = "<"  -> hist.text[13] = Sym("<") /\ hist.text[14] # Sym("=")
         [] op = ">"  -> hist.text[13] = Sym(">") /\ hist.text[14] # Sym("=")

ComparatorJump(op) ==
    CASE op = "==" -> "IfEqual"
      [] op = "!=" -> "IfNotEqual"
      [] op = "<"  -> "IfLessThan"
      [] op = "<=" -> "IfLessThanOrEqual"
      [] op = ">"  -> "IfGreater"
      [] op = ">=" -> "IfGreaterOrEqual"

\* C28: an if statement written with any of the six comparators compiles,
\* and the emitted conditional jump is jmp_ifx(R8, op, R9, +1) with the jump
\* operation of the comparator: == IfEqual, != IfNotEqual, < IfLessThan,
\* <= IfLessThanOrEqual, > IfGreater, >= IfGreaterOrEqual.
C28_SixComparators ==
    \A op \in Comparators :
        Written(op)
            => /\ pc = "done"
               /\ \E i \in DOMAIN instructions :
                     SameIns(instructions[i], jmp_ifx(R8, ComparatorJump(op), R9, 1))

(***************************************************************************)
(* optimize against a first-match rewriter (SpecWindows).                  *)
(***************************************************************************)
\* The rewriter the rule "first match wins" describes: at the position
\* reached, the first of the three rules that matches is applied, alone.
FirstMatchStep(inp) ==
    IF optimize_mov_add_load(inp, <<>>).ok THEN optimize_mov_add_load(inp, <<>>)
    ELSE IF optimize_add_load(inp, <<>>).ok THEN optimize_add_load(inp, <<>>)
    ELSE no_optimization(inp, <<>>)

RECURSIVE FirstMatch(_)
FirstMatch(inp) ==
    IF inp = <<>> THEN <<>>
    ELSE FirstMatchStep(inp).out \o FirstMatch(FirstMatchStep(inp).inp)

AfterOptimize == optPc = "opt1"

\* C27: the output of optimize equals the output of the left-to-right
\* first-match rewriter on every input stream.
C27_FirstMatchWins == AfterOptimize => optOut = FirstMatch(optIn)

\* a window of either rule starts at position i of s
WindowAt(s, i) ==
    \/ optimize_mov_add_load(Rest(s, i - 1), <<>>).ok
    \/ optimize_add_load(Rest(s, i - 1), <<>>).ok

HasWindow(s) == \E i \in DOMAIN s : WindowAt(s, i)

\* out is inp with consecutive pieces rewritten one by one, in order: every
\* instruction of inp is in exactly one piece, a piece is one instruction
\* copied or a window replaced by its load
RECURSIVE ConsumedInOrder(_, _)
ConsumedInOrder(inp, out) ==
    IF inp = <<>> THEN out = <<>>
    ELSE /\ out # <<>>
         /\ \/ /\ out[1] = inp[1]
               /\ ConsumedInOrder(Rest(inp, 1), Rest(out, 1))
            \/ /\ optimize_add_load(inp, <<>>).ok
               /\ out[1] = optimize_add_load(inp, <<>>).out[1]
               /\ ConsumedInOrder(Rest(inp, 2), Rest(out, 1))
            \/ /\ optimize_mov_add_load(inp, <<>>).ok
               /\ out[1] = optimize_mov_add_load(inp, <<>>).out[1]
               /\ ConsumedInOrder(Rest(inp, 3), Rest(out, 1))

\* the rounds of the while loop of optimize
RECURSIVE OptimizeRounds(_)
OptimizeRounds(inp) ==
    IF inp = <<>> THEN 0 ELSE 1 + OptimizeRounds(OPTIMIZERS(inp, <<>>).inp)

\* C30: optimize ends after at most one round per input instruction, its
\* output is the input consumed piece by piece in order, is no longer than
\* the input, and is the input itself when the input has no mov+add+load
\* and no add+load window (the empty stream included).
C30_OptimizeConsumesInput ==
    AfterOptimize
        => /\ OptimizeRounds(optIn) <= Len(optIn)
           /\ ConsumedInOrder(optIn, optOut)
           /\ Len(optOut) <= Len(optIn)
           /\ (~HasWindow(optIn) => optOut = optIn)

\* a stream with a window came out shorter
C30_Witness ==
    /\ AfterOptimize
    /\ HasWindow(optIn)
    /\ Len(optIn) = MaxWindows
    /\ Len(optOut) < Len(optIn)

\* a stream of MaxWindows instructions without a window came out unchanged
C30_WitnessUnchanged ==
    /\ AfterOptimize
    /\ ~HasWindow(optIn)
    /\ Len(optIn) = MaxWindows
    /\ optOut = optIn

(***************************************************************************)
(* The bytes a new variable's stores write (SpecStmt).                     *)
(***************************************************************************)
\* an accepted assignment that created a variable
NewVariableCase ==
    /\ AfterStmt("Assignment")
    /\ IsNewVariable
    /\ pc = "body"
    /\ hist.stmt.left.name \in DOMAIN variables

\* the bytes from offset o (relative to R10) up to o + n lie in what
\* push_stack reserved for the statement: from -stack up to the old top
InReserved(o, n) == -stack <= o /\ o + n <= -hist.pre.stack

\* is[k] starts the five instructions of a probe_read to R10 + o of n bytes
ProbeReadTo(is, k, o, n) ==
    /\ k + 4 <= Len(is)
    /\ SameIns(is[k], movx64(R1, R10))
    /\ SameIns(is[k + 1], add64(R1, o))
    /\ SameIns(is[k + 2], mov64(R2, n))
    /\ SameIns(is[k + 4], call(ProbeRead))

ProbeReadAt(is, k) ==
    /\ k + 4 <= Len(is)
    /\ SameIns(is[k], movx64(R1, R10))
    /\ is[k + 1].op = "add64" /\ is[k + 2].op = "mov64"
    /\ SameIns(is[k + 4], call(ProbeRead))

StoresInReserved(is) ==
    /\ \A k \in 1..Len(is) :
          IsStackStore(is[k]) => InReserved(is[k].off, is[k].size \div 8)
    /\ hist.stmt.right.kind = "LValue" =>
          \A k \in 1..Len(is) :
              ProbeReadAt(is, k) => InReserved(is[k + 1].imm, is[k + 2].imm)

\* C29: the bytes written by the stores emitted for an assignment that
\* creates a variable lie inside the bytes push_stack reserved for it.
C29_StoresInsideReservation == NewVariableCase => StoresInReserved(NewIns)

====
